---- MODULE Spec2Model ----
(***************************************************************************)
(* Model of the AdVocate campaign pipeline: the AdGen workflow graph       *)
(* (src/agents/AdGen/graph.py, nodes.py), asset persistence                *)
(* (orchestrator.py), the research and marketing agents (agent.py,         *)
(* nodes.py), the parsers and the end-to-end runner (run_campaign_flow.py).*)
(*                                                                         *)
(* Specifications: Spec runs run_campaign_flow, generate_campaign or      *)
(* generate_single_campaign from the call to the return or the exception;  *)
(* SpecRoute applies the conditional edge should_regenerate to asset       *)
(* lists; SpecParse applies parse_campaign_ideas to marketing texts and    *)
(* SpecRoundTrip to labelled blocks; SpecMetrics applies both campaign     *)
(* parsers (run_campaign_flow.py, app.py) to texts with success metrics;   *)
(* SpecConcurrent interleaves the persistence loops of two                 *)
(* generate_campaign runs; SpecCache calls get_research_data and           *)
(* get_marketing_data (app.py, enhanced_app.py); SpecTruncate,             *)
(* SpecSanitize and SpecActionInput call truncate_text,                    *)
(* _sanitize_filename and the marketing node generate_campaigns on their   *)
(* own; SpecResearchParse calls parse_research_results of                  *)
(* run_campaign_flow.py on prose around the 50-character minimum;          *)
(* SpecReport parses the report of ResearchAgent.run with the marketing    *)
(* agent's parse_research_results; SpecApp is one session of the           *)
(* Streamlit flow of app.py.                                               *)
(*                                                                         *)
(* Text is a sequence of tokens.  A token is a single character (" ",      *)
(* "\n", "#", "a", ...) or a whole word of the labels the parsers look     *)
(* for ("Campaign", "Name:", "Core Message:", ...).  No word token begins  *)
(* or ends with whitespace, and the content tokens never spell a label     *)
(* letter by letter, so matching a literal of a regular expression is      *)
(* matching a run of tokens.                                               *)
(***************************************************************************)
EXTENDS Integers, Sequences, FiniteSets, TLC

VARIABLES
    rAssets,      \* should_regenerate: state["campaign_assets"] given to the router
    rAttempts,    \* should_regenerate: executions of campaign_assets so far
    rRoute,       \* should_regenerate: the branch returned ("none" before the call)
    pChunks,      \* parse_campaign_ideas: the chunks the argument is made of
    pText,        \* parse_campaign_ideas: the marketing_results argument
    pResult,      \* parse_campaign_ideas: what the call returned or raised
    entry,        \* the entry point called: "flow" (run_campaign_flow), "generate" (generate_campaign)
                  \* or "single" (generate_single_campaign)
    pc,           \* where the run is: start, marketing, ad_generation, graph, persist, returned, raised
    clock,        \* datetime.now() in whole seconds
    current_step, \* progress_tracker.current_step
    research_text,   \* run_campaign_flow: text returned by research_agent.run
    research,    \* run_campaign_flow: sections of parse_research_results
    marketing_text,  \* run_campaign_flow: text returned by marketing_agent.run
    ideas,     \* the campaign_ideas argument of generate_campaign
    node,         \* workflow.ainvoke: the node to run next
    executed,     \* workflow.ainvoke: the nodes that have run, in order
    graph_state,        \* workflow.ainvoke: the GraphState
    results,      \* generate_campaign: the result records appended so far
    saved,        \* the calls of _save_campaign_assets made so far: directory and assets
    fs,           \* the files written: path -> content
    raised,        \* the exception the caller of the entry point sees
    calls,        \* the stages started, in order
    failed,       \* what has failed: research, marketing, llm, image, setup, or the file whose write raised
    gen_done,     \* generate_campaign has returned its results
    callee,       \* a function called on its own: its name ("none" when there is none)
    args,         \* the arguments of that call
    ret,          \* what that call returned
    research_cache,   \* app.py: st.session_state.research_cache
    marketing_cache,  \* app.py: st.session_state.marketing_cache
    requests,     \* app.py: the get_research_data / get_marketing_data calls made and what each returned
    runs,         \* concurrent generate_campaign runs: the ideas of each run and the records it has appended
    shared_clock, \* concurrent runs: datetime.now() in whole seconds
    shared_fs,    \* concurrent runs: the files of the output directory, path -> the run and idea that wrote it
    session_step,       \* app.py: st.session_state.current_step
    research_history,   \* app.py: st.session_state.research_history
    current_company,    \* app.py: st.session_state.current_company
    current_audience,   \* app.py: st.session_state.current_audience
    theme,              \* app.py: st.session_state.theme
    ad_assets           \* app.py: st.session_state.ad_assets, key -> the campaign the assets were made for

routeVars == <<rAssets, rAttempts, rRoute>>

parseVars == <<pChunks, pText, pResult>>

flowVars ==
    <<entry, pc, clock, current_step, research_text, research,
      marketing_text, ideas, node, executed, graph_state, results, saved,
      fs, raised, calls, failed, gen_done>>

callVars == <<callee, args, ret>>

cacheVars == <<research_cache, marketing_cache, requests>>

concVars == <<runs, shared_clock, shared_fs>>

sessionVars ==
    <<session_step, research_history, current_company, current_audience, theme, ad_assets>>

vars == <<routeVars, parseVars, flowVars, callVars, cacheVars, concVars, sessionVars>>

----------------------------------------------------------------------------
(* Bounds of the model *)

MaxAssets == 2
MaxAttempts == 3
MaxRetries == 3
MaxChunks == 2

----------------------------------------------------------------------------
(* Strings *)

UpperChars == <<"A","B","C","D","E","F","G","H","I","J","K","L","M",
                "N","O","P","Q","R","S","T","U","V","W","X","Y","Z">>
LowerChars == <<"a","b","c","d","e","f","g","h","i","j","k","l","m",
                "n","o","p","q","r","s","t","u","v","w","x","y","z">>

\* str.lower() on one character
LowerChar(c) ==
    IF \E i \in 1..26 : UpperChars[i] = c
    THEN LowerChars[CHOOSE i \in 1..26 : UpperChars[i] = c]
    ELSE c

\* str.lower()
Lower(s) == [i \in 1..Len(s) |-> LowerChar(s[i])]

\* the literal p occurs in t at position i
StartsAt(t, p, i) ==
    /\ i >= 1
    /\ i + Len(p) - 1 <= Len(t)
    /\ \A k \in 1..Len(p) : t[i + k - 1] = p[k]

\* p in t
Contains(t, p) == \E i \in 1..(Len(t) + 1) : StartsAt(t, p, i)

\* dict.get(k, default)
Get(d, k, default) == IF k \in DOMAIN d THEN d[k] ELSE default

\* Op applied to the value of v, with v evaluated once
Bind(v, Op(_)) == CHOOSE r \in {Op(x) : x \in {v}} : TRUE

----------------------------------------------------------------------------
(* AdGen workflow graph: the conditional edge *)

FAIL_MARK == <<"f","a","i","l">>
ERROR_MARK == <<"e","r","r","o","r">>

\* the test of one verdict inside should_regenerate
IsFailingVerdict(quality_check) ==
    Contains(Lower(quality_check), FAIL_MARK) \/ Contains(Lower(quality_check), ERROR_MARK)

\* mutant: an empty asset list is routed to the end
should_regenerate_EmptyEnds(state) ==
    LET assets == Get(state, "campaign_assets", <<>>)
    IN  IF \E i \in 1..Len(assets) : IsFailingVerdict(Get(assets[i], "quality_check", <<>>))
        THEN "campaign_assets"
        ELSE "end"

should_regenerate(state) ==
    LET assets == Get(state, "campaign_assets", <<>>)
    IN  IF assets = <<>>
        THEN "campaign_assets"
        ELSE IF \E i \in 1..Len(assets) :
                    IsFailingVerdict(Get(assets[i], "quality_check", <<>>))
             THEN "campaign_assets"
             ELSE "end"

----------------------------------------------------------------------------
(* Inputs of the router: asset lists with and without verdicts *)

Verdicts ==
    { <<>>,
      <<"P","A","S","S">>,
      <<"F","A","I","L">>,
      <<"n","o"," ","E","r","r","o","r","s">>,
      <<"u","n","f","a","i","l","i","n","g">>,
      <<"f","a","i"," ","l">> }

BareAsset == [tagline |-> "t", story |-> "s", image_prompt |-> "p"]

CheckedAsset(v) ==
    [tagline |-> "t", story |-> "s", image_prompt |-> "p", quality_check |-> v]

RouteAssets == {BareAsset} \cup {CheckedAsset(v) : v \in Verdicts}

SeqsUpTo(S, n) == UNION {[1..k -> S] : k \in 0..n}

RouteIdle == rAssets = <<>> /\ rAttempts = 0 /\ rRoute = "none"

\* no function has been called on its own
NotCalled == [done |-> FALSE, value |-> <<>>]

CallIdle == callee = "none" /\ args = <<>> /\ ret = NotCalled

CacheIdle == research_cache = <<>> /\ marketing_cache = <<>> /\ requests = <<>>

ConcIdle == runs = <<>> /\ shared_clock = 0 /\ shared_fs = <<>>

\* app.py: the session state of a new session
SessionIdle ==
    /\ session_step = "start"
    /\ research_history = <<>>
    /\ current_company = <<>>
    /\ current_audience = <<>>
    /\ theme = "light"
    /\ ad_assets = <<>>


----------------------------------------------------------------------------
(* Text helpers shared by the parsers *)

\* the characters a word token stands for (single characters count 1)
WordLen ==
       "Campaign" :> 8
    @@ "Name:" :> 5
    @@ "Core Message:" :> 13
    @@ "Visual Theme" :> 12
    @@ "Description" :> 11
    @@ "Key" :> 3
    @@ "Emotional Appeal:" :> 17
    @@ "Social Media" :> 12
    @@ "Focus" :> 5
    @@ "Timeline:" :> 9
    @@ "Budget" :> 6
    @@ "Allocation" :> 10
    @@ "Success Metrics:" :> 16
    @@ "Action Input:" :> 13
    @@ "GreenFuture" :> 11
    @@ "Sustainable" :> 11
    @@ "Innovation" :> 10
    @@ "Trustworthy" :> 11
    @@ "Foo" :> 3
    @@ "Bar" :> 3
    @@ "Reach" :> 5
    @@ "Sales" :> 5
    @@ "Eco" :> 3
    @@ "Tech" :> 4
    @@ "Brand" :> 5
    @@ "Awareness" :> 9
    @@ "Highlighting unique value proposition" :> 37
    @@ "Clean, professional design that reflects brand identity" :> 55
    @@ "Trust and reliability" :> 21
    @@ "Q1 2024" :> 7
    @@ "Standard allocation across channels" :> 35
    @@ "Increase brand awareness" :> 24
    @@ "Drive engagement" :> 16
    @@ "Showcasing brand values and mission" :> 35
    @@ "Professional and trustworthy imagery" :> 36
    @@ "Engaging content across key platforms" :> 37
    @@ "Research Questions:" :> 19
    @@ "Raw Findings:" :> 13
    @@ "Analysis:" :> 9
    @@ "Error during research:" :> 22
    @@ "Error during campaign generation:" :> 33
    @@ "1." :> 2
    @@ "2." :> 2
    @@ "3." :> 2
    @@ "4." :> 2
    @@ "**Basic Company Information**:" :> 30
    @@ "**Market Position**:" :> 20
    @@ "**Target Audience**:" :> 20
    @@ "None" :> 4
    @@ "timeout" :> 7
    @@ "Connection to the model endpoint timed out" :> 42
    @@ "EcoTech builds energy saving thermostats for modern homes" :> 57
    @@ "Who buys smart thermostats" :> 26
    @@ "Urban professionals value sustainability" :> 40
    @@ "Idea" :> 4
    @@ "Success Metrics" :> 15

TokLen(tok) == IF tok \in DOMAIN WordLen THEN WordLen[tok] ELSE 1

\* "".join(c if c.isalnum() else "_" for c in tok) for the word tokens that
\* hold a character that is not alphanumeric
SanitizedWord ==
       "Name:" :> <<"Name", "_">>
    @@ "Core Message:" :> <<"Core", "_", "Message", "_">>
    @@ "Visual Theme" :> <<"Visual", "_", "Theme">>
    @@ "Emotional Appeal:" :> <<"Emotional", "_", "Appeal", "_">>
    @@ "Social Media" :> <<"Social", "_", "Media">>
    @@ "Timeline:" :> <<"Timeline", "_">>
    @@ "Success Metrics:" :> <<"Success", "_", "Metrics", "_">>
    @@ "Action Input:" :> <<"Action", "_", "Input", "_">>
    @@ "Highlighting unique value proposition" :> <<"Highlighting", "_", "unique", "_", "value", "_", "proposition">>
    @@ "Clean, professional design that reflects brand identity" :> <<"Clean", "_", "_", "professional", "_", "design", "_", "that", "_", "reflects", "_", "brand", "_", "identity">>
    @@ "Trust and reliability" :> <<"Trust", "_", "and", "_", "reliability">>
    @@ "Q1 2024" :> <<"Q1", "_", "2024">>
    @@ "Standard allocation across channels" :> <<"Standard", "_", "allocation", "_", "across", "_", "channels">>
    @@ "Increase brand awareness" :> <<"Increase", "_", "brand", "_", "awareness">>
    @@ "Drive engagement" :> <<"Drive", "_", "engagement">>
    @@ "Showcasing brand values and mission" :> <<"Showcasing", "_", "brand", "_", "values", "_", "and", "_", "mission">>
    @@ "Professional and trustworthy imagery" :> <<"Professional", "_", "and", "_", "trustworthy", "_", "imagery">>
    @@ "Engaging content across key platforms" :> <<"Engaging", "_", "content", "_", "across", "_", "key", "_", "platforms">>
    @@ "Research Questions:" :> <<"Research", "_", "Questions", "_">>
    @@ "Raw Findings:" :> <<"Raw", "_", "Findings", "_">>
    @@ "Analysis:" :> <<"Analysis", "_">>
    @@ "Error during research:" :> <<"Error", "_", "during", "_", "research", "_">>
    @@ "Error during campaign generation:" :> <<"Error", "_", "during", "_", "campaign", "_", "generation", "_">>
    @@ "1." :> <<"1", "_">>
    @@ "2." :> <<"2", "_">>
    @@ "3." :> <<"3", "_">>
    @@ "4." :> <<"4", "_">>
    @@ "**Basic Company Information**:" :> <<"_", "_", "Basic", "_", "Company", "_", "Information", "_", "_", "_">>
    @@ "**Market Position**:" :> <<"_", "_", "Market", "_", "Position", "_", "_", "_">>
    @@ "**Target Audience**:" :> <<"_", "_", "Target", "_", "Audience", "_", "_", "_">>
    @@ "Connection to the model endpoint timed out" :> <<"Connection", "_", "to", "_", "the", "_", "model", "_", "endpoint", "_", "timed", "_", "out">>
    @@ "EcoTech builds energy saving thermostats for modern homes" :> <<"EcoTech", "_", "builds", "_", "energy", "_", "saving", "_", "thermostats", "_", "for", "_", "modern", "_", "homes">>
    @@ "Who buys smart thermostats" :> <<"Who", "_", "buys", "_", "smart", "_", "thermostats">>
    @@ "Urban professionals value sustainability" :> <<"Urban", "_", "professionals", "_", "value", "_", "sustainability">>
    @@ "Success Metrics" :> <<"Success", "_", "Metrics">>

RECURSIVE TextLen(_)
\* len(s)
TextLen(s) == IF s = <<>> THEN 0 ELSE TokLen(Head(s)) + TextLen(Tail(s))

IsWs(tok) == tok \in {" ", "\n", "\t"}

RECURSIVE LStrip(_)
\* str.lstrip()
LStrip(s) == IF s # <<>> /\ IsWs(Head(s)) THEN LStrip(Tail(s)) ELSE s

RECURSIVE RStrip(_)
\* str.rstrip()
RStrip(s) == IF s # <<>> /\ IsWs(s[Len(s)]) THEN RStrip(SubSeq(s, 1, Len(s) - 1)) ELSE s

\* str.strip()
Strip(s) == Bind(s, LAMBDA v : RStrip(LStrip(v)))

\* the position after a run of whitespace that starts at i (regex \s*)
RECURSIVE SkipWs(_, _)
SkipWs(t, i) == IF i <= Len(t) /\ IsWs(t[i]) THEN SkipWs(t, i + 1) ELSE i

\* regex $ (no MULTILINE): at the end, or before a final newline
DollarAt(t, q) == q = Len(t) + 1 \/ (q = Len(t) /\ t[q] = "\n")

\* A labelled pattern  (?:pre)?head(?:\s*opt)?tail(.+?)(?=stop1|stop2|$)
\* with re.DOTALL.  LabelEnd is the position after the label matched at i,
\* 0 when the label does not match at i.
LabelEndFrom(t, j, P) ==
    IF ~StartsAt(t, P.head, j) THEN 0
    ELSE LET k == j + Len(P.head)
             w == SkipWs(t, k)
         IN  IF P.opt # <<>> /\ StartsAt(t, P.opt, w)
                             /\ StartsAt(t, P.tail, w + Len(P.opt))
             THEN w + Len(P.opt) + Len(P.tail)
             ELSE IF StartsAt(t, P.tail, k) THEN k + Len(P.tail) ELSE 0

\* A numbered pattern  head\s+label(.+?)(?=stop|$)
NumberedLabelEnd(t, i, P) ==
    IF ~StartsAt(t, P.head, i) THEN 0
    ELSE LET k == i + Len(P.head)
             w == SkipWs(t, k)
         IN  IF w > k /\ StartsAt(t, P.label, w) THEN w + Len(P.label) ELSE 0

LabelEnd(t, i, P) ==
    IF "label" \in DOMAIN P THEN NumberedLabelEnd(t, i, P)
    ELSE IF P.pre # <<>> /\ StartsAt(t, P.pre, i)
                         /\ LabelEndFrom(t, i + Len(P.pre), P) # 0
         THEN LabelEndFrom(t, i + Len(P.pre), P)
         ELSE LabelEndFrom(t, i, P)

\* (.+?) needs one character after the label
MatchesAt(t, i, P) == Bind(LabelEnd(t, i, P), LAMBDA e : e # 0 /\ e <= Len(t))

StopAt(t, q, P) == DollarAt(t, q) \/ \E k \in 1..Len(P.stops) : StartsAt(t, P.stops[k], q)

\* the least member of a non-empty set of positions
Least(S) == Bind(S, LAMBDA V : CHOOSE x \in V : \A y \in V : x <= y)

\* re.search(pattern, t, re.DOTALL): <<found, group(1)>>
Search(t, P) ==
    Bind({i \in 1..Len(t) : MatchesAt(t, i, P)}, LAMBDA starts :
        IF starts = {} THEN [found |-> FALSE, group |-> <<>>]
        ELSE Bind(LabelEnd(t, Least(starts), P), LAMBDA b :
                [found |-> TRUE,
                 group |-> SubSeq(t, b, Least({q \in (b + 1)..(Len(t) + 1) : StopAt(t, q, P)}) - 1)]))

RECURSIVE SplitOn(_, _, _, _)
\* the pieces of t between the occurrences of a one-token separator
SplitOn(t, sep, i, start) ==
    IF i > Len(t) THEN <<SubSeq(t, start, Len(t))>>
    ELSE IF t[i] = sep
         THEN <<SubSeq(t, start, i - 1)>> \o SplitOn(t, sep, i + 1, i + 1)
         ELSE SplitOn(t, sep, i + 1, start)

\* [f(x) for x in s if keep(x)] helpers on sequences of texts
RECURSIVE StrippedNonEmpty(_)
StrippedNonEmpty(ss) ==
    IF ss = <<>> THEN <<>>
    ELSE IF Strip(Head(ss)) = <<>> THEN StrippedNonEmpty(Tail(ss))
         ELSE <<Strip(Head(ss))>> \o StrippedNonEmpty(Tail(ss))

RECURSIVE NonBlank(_)
NonBlank(ss) ==
    IF ss = <<>> THEN <<>>
    ELSE IF Strip(Head(ss)) = <<>> THEN NonBlank(Tail(ss))
         ELSE <<Head(ss)>> \o NonBlank(Tail(ss))

----------------------------------------------------------------------------
(* run_campaign_flow.py: validate_campaign_data and parse_campaign_ideas *)

MIN_CAMPAIGN_FIELD_LEN == 10

NoError == [type |-> "none", step |-> "none", message |-> "none"]

Raise(type, step, message) == [type |-> type, step |-> step, message |-> message]

REQUIRED_CAMPAIGN_FIELDS ==
    <<"campaign_name", "core_message", "visual_theme_description", "key_emotional_appeal">>

\* mutant: a field of exactly the minimum length is rejected
validate_campaign_data_AboveMinimum(campaign) ==
    IF \E k \in 1..4 : REQUIRED_CAMPAIGN_FIELDS[k] \notin DOMAIN campaign
    THEN Raise("ValidationError", "campaign", "Missing required campaign fields")
    ELSE IF \E k \in 1..4 :
                TextLen(Strip(campaign[REQUIRED_CAMPAIGN_FIELDS[k]])) <= MIN_CAMPAIGN_FIELD_LEN
         THEN Raise("ValidationError", "campaign", "Insufficient content")
         ELSE NoError

\* the error validate_campaign_data raises for the campaign, NoError when it
\* returns True
validate_campaign_data(campaign) ==
    LET missing == {k \in 1..4 : REQUIRED_CAMPAIGN_FIELDS[k] \notin DOMAIN campaign}
        short == {k \in 1..4 :
                    LET v == campaign[REQUIRED_CAMPAIGN_FIELDS[k]]
                    IN  v = <<>> \/ TextLen(Strip(v)) < MIN_CAMPAIGN_FIELD_LEN}
    IN  IF missing # {}
        THEN Raise("ValidationError", "campaign", "Missing required campaign fields")
        ELSE IF short # {}
             THEN Raise("ValidationError", "campaign", "Insufficient content")
             ELSE NoError

P_campaign_name ==
    [pre |-> <<"Campaign", " ">>, head |-> <<"Name:">>, opt |-> <<>>, tail |-> <<>>,
     stops |-> << <<"Core Message:">> >>]
P_core_message ==
    [pre |-> <<>>, head |-> <<"Core Message:">>, opt |-> <<>>, tail |-> <<>>,
     stops |-> << <<"Visual Theme", " ", "Description", ":">>, <<"Visual Theme", ":">> >>]
P_visual_theme ==
    [pre |-> <<>>, head |-> <<"Visual Theme">>, opt |-> <<"Description">>, tail |-> <<":">>,
     stops |-> << <<"Key", " ", "Emotional Appeal:">>, <<"Emotional Appeal:">> >>]
P_emotional_appeal ==
    [pre |-> <<"Key", " ">>, head |-> <<"Emotional Appeal:">>, opt |-> <<>>, tail |-> <<>>,
     stops |-> << <<"Social Media", " ", "Focus", ":">>, <<"Social Media", ":">> >>]
P_social_media ==
    [pre |-> <<>>, head |-> <<"Social Media">>, opt |-> <<"Focus">>, tail |-> <<":">>,
     stops |-> << <<"Campaign", " ", "Timeline:">>, <<"Timeline:">> >>]
P_timeline ==
    [pre |-> <<"Campaign", " ">>, head |-> <<"Timeline:">>, opt |-> <<>>, tail |-> <<>>,
     stops |-> << <<"Budget", " ", "Allocation", ":">>, <<"Budget", ":">> >>]
P_budget ==
    [pre |-> <<>>, head |-> <<"Budget">>, opt |-> <<"Allocation">>, tail |-> <<":">>,
     stops |-> << <<"Success Metrics:">> >>]
P_success_metrics ==
    [pre |-> <<>>, head |-> <<"Success Metrics:">>, opt |-> <<>>, tail |-> <<>>,
     stops |-> << <<"Campaign", " ">> >>]

\* extracted_fields.get(field, default) with match.group(1).strip()
Extract(section, P, default) ==
    Bind(Search(section, P), LAMBDA m : IF m.found THEN Strip(m.group) ELSE default)

Digits == <<"0", "1", "2", "3", "4", "5", "6", "7", "8", "9">>

\* str(i), i < 100
IntText(i) ==
    IF i < 10 THEN <<Digits[i + 1]>>
    ELSE <<Digits[(i \div 10) + 1], Digits[(i % 10) + 1]>>

\* success_metrics of parse_campaign_ideas
ExtractSuccessMetrics(marketing_results) ==
    Bind(Search(marketing_results, P_success_metrics), LAMBDA m :
        IF m.found
        THEN Bind(Strip(m.group), LAMBDA metrics_text :
                StrippedNonEmpty(SplitOn(metrics_text, "\n", 1, 1)))
        ELSE <<>>)

MARKER3 == <<"#", "#", "#", " ", "Campaign", " ">>
MARKER2 == <<"#", "#", " ", "Campaign", " ">>

RECURSIVE SplitCampaigns(_, _, _)
\* re.split(r'### Campaign |## Campaign ', t)
SplitCampaigns(t, i, start) ==
    Bind({j \in i..Len(t) : StartsAt(t, MARKER3, j) \/ StartsAt(t, MARKER2, j)},
         LAMBDA hits :
            IF hits = {} THEN <<SubSeq(t, start, Len(t))>>
            ELSE Bind(Least(hits), LAMBDA j :
                    Bind(IF StartsAt(t, MARKER3, j) THEN Len(MARKER3) ELSE Len(MARKER2),
                         LAMBDA n :
                            <<SubSeq(t, start, j - 1)>> \o SplitCampaigns(t, j + n, j + n))))

\* the campaign dictionary built from the i-th section
BuildCampaign(section, i, success_metrics) ==
    [campaign_name |-> Extract(section, P_campaign_name, <<"Campaign", " ">> \o IntText(i)),
     core_message |-> Extract(section, P_core_message, <<>>),
     visual_theme_description |-> Extract(section, P_visual_theme, <<>>),
     key_emotional_appeal |-> Extract(section, P_emotional_appeal, <<>>),
     campaign_timeline |-> Extract(section, P_timeline, <<>>),
     budget_allocation |-> Extract(section, P_budget, <<>>),
     success_metrics |-> success_metrics,
     prompt_suggestions |->
        [brand_focused |-> Extract(section, P_core_message, <<>>),
         visual_focused |-> Extract(section, P_visual_theme, <<>>),
         social_media |-> Extract(section, P_social_media, <<>>)]]

FALLBACK_CAMPAIGN ==
    [campaign_name |-> <<"Brand", " ", "Awareness", " ", "Campaign">>,
     core_message |-> <<"Highlighting unique value proposition">>,
     visual_theme_description |-> <<"Clean, professional design that reflects brand identity">>,
     key_emotional_appeal |-> <<"Trust and reliability">>,
     campaign_timeline |-> <<"Q1 2024">>,
     budget_allocation |-> <<"Standard allocation across channels">>,
     success_metrics |-> << <<"Increase brand awareness">>, <<"Drive engagement">> >>,
     prompt_suggestions |->
        [brand_focused |-> <<"Showcasing brand values and mission">>,
         visual_focused |-> <<"Professional and trustworthy imagery">>,
         social_media |-> <<"Engaging content across key platforms">>]]

RECURSIVE ParseSections(_, _, _)
\* the loop over campaign_sections: a section whose campaign fails validation
\* is skipped
ParseSections(sections, i, success_metrics) ==
    IF i > Len(sections) THEN <<>>
    ELSE Bind(BuildCampaign(sections[i], i, success_metrics), LAMBDA campaign :
            IF validate_campaign_data(campaign) = NoError
            THEN <<campaign>> \o ParseSections(sections, i + 1, success_metrics)
            ELSE ParseSections(sections, i + 1, success_metrics))

\* no call made yet
Pending == [status |-> "pending", campaigns |-> <<>>, error |-> NoError]

ParseIdle == pChunks = <<>> /\ pText = <<>> /\ pResult = Pending

Returned(campaigns) == [status |-> "returned", campaigns |-> campaigns, error |-> NoError]

Raised(error) == [status |-> "raised", campaigns |-> <<>>, error |-> error]

\* the campaigns of the non-blank sections that pass validation
ParsedCampaigns(marketing_results, sections) ==
    Bind(ExtractSuccessMetrics(marketing_results), LAMBDA success_metrics :
        ParseSections(sections, 1, success_metrics))

\* mutant: no fallback campaign is appended
parse_campaign_ideas_NoFallback(marketing_results) ==
    IF Strip(marketing_results) = <<>>
    THEN Raised(Raise("ParsingError", "marketing", "Marketing results are empty"))
    ELSE Bind(NonBlank(SplitCampaigns(marketing_results, 1, 1)), LAMBDA sections :
            IF sections = <<>>
            THEN Raised(Raise("ParsingError", "marketing", "No campaign sections found"))
            ELSE Returned(ParsedCampaigns(marketing_results, sections)))

\* mutant: empty marketing results fall back instead of raising
parse_campaign_ideas_EmptyFallsBack(marketing_results) ==
    Bind(NonBlank(SplitCampaigns(marketing_results, 1, 1)), LAMBDA sections :
        Bind(ParsedCampaigns(marketing_results, sections), LAMBDA campaigns :
            IF campaigns = <<>> THEN Returned(<<FALLBACK_CAMPAIGN>>) ELSE Returned(campaigns)))

\* mutant: one section failing validation discards the others
parse_campaign_ideas_AllOrFallback(marketing_results) ==
    Bind(NonBlank(SplitCampaigns(marketing_results, 1, 1)), LAMBDA sections :
        Bind(ParsedCampaigns(marketing_results, sections), LAMBDA campaigns :
            IF Len(campaigns) = Len(sections) /\ campaigns # <<>>
            THEN Returned(campaigns) ELSE Returned(<<FALLBACK_CAMPAIGN>>)))

parse_campaign_ideas(marketing_results) ==
    IF marketing_results = <<>> \/ Strip(marketing_results) = <<>>
    THEN Raised(Raise("ParsingError", "marketing", "Marketing results are empty"))
    ELSE Bind(NonBlank(SplitCampaigns(marketing_results, 1, 1)), LAMBDA sections :
            IF sections = <<>>
            THEN Raised(Raise("ParsingError", "marketing", "No campaign sections found"))
            ELSE Bind(ParsedCampaigns(marketing_results, sections), LAMBDA campaigns :
                    IF campaigns # <<>> THEN Returned(campaigns)
                    ELSE IF validate_campaign_data(FALLBACK_CAMPAIGN) = NoError
                         THEN Returned(<<FALLBACK_CAMPAIGN>>)
                         ELSE Raised(validate_campaign_data(FALLBACK_CAMPAIGN))))

----------------------------------------------------------------------------
(* Inputs of parse_campaign_ideas: marketing texts made of up to MaxChunks
   chunks, each a section body with or without a campaign boundary marker
   in front *)

Field(label, content) == label \o <<" ">> \o content \o <<"\n">>

\* every required field long enough, short labels
BodyValid ==
    <<"1", ":", "\n">>
    \o Field(<<"Name:">>, <<"GreenFuture">>)
    \o Field(<<"Core Message:">>, <<"Sustainable">>)
    \o Field(<<"Visual Theme", ":">>, <<"Innovation">>)
    \o Field(<<"Emotional Appeal:">>, <<"Trustworthy">>)

\* every label in its long spelling, with the optional fields and metrics
BodyFull ==
    Field(<<"Campaign", " ", "Name:">>, <<"Eco", " ", "Tech", " ", "Reach">>)
    \o Field(<<"Core Message:">>, <<"Sustainable">>)
    \o Field(<<"Visual Theme", " ", "Description", ":">>, <<"Innovation">>)
    \o Field(<<"Key", " ", "Emotional Appeal:">>, <<"Trustworthy">>)
    \o Field(<<"Social Media", " ", "Focus", ":">>, <<"Reach">>)
    \o Field(<<"Campaign", " ", "Timeline:">>, <<"Q1 2024">>)
    \o Field(<<"Budget", " ", "Allocation", ":">>, <<"Sales">>)
    \o <<"Success Metrics:", "\n", "-", " ", "Reach", "\n", "-", " ", "Sales", "\n">>

\* name and core message shorter than the minimum
BodyShort ==
    Field(<<"Name:">>, <<"Foo">>)
    \o Field(<<"Core Message:">>, <<"Bar">>)
    \o Field(<<"Visual Theme", ":">>, <<"Innovation">>)
    \o Field(<<"Emotional Appeal:">>, <<"Trustworthy">>)

\* no name label: the name defaults to 'Campaign {i}'
BodyNoName ==
    Field(<<"Core Message:">>, <<"Sustainable">>)
    \o Field(<<"Visual Theme", ":">>, <<"Innovation">>)
    \o Field(<<"Emotional Appeal:">>, <<"Trustworthy">>)

\* prose without any label
BodyProse == <<"Foo", " ", "Bar", ".", "\n">>

BodyBlank == <<" ", "\n">>

\* two sections in one body: one without a name label, then a full one
BodyPair == BodyNoName \o MARKER2 \o BodyFull

Bodies == {BodyValid, BodyFull, BodyShort, BodyNoName, BodyProse, BodyBlank, BodyPair, <<>>}

Chunks == [marker : {<<>>, MARKER3, MARKER2}, body : Bodies]

RECURSIVE ChunkText(_)
ChunkText(cs) ==
    IF cs = <<>> THEN <<>>
    ELSE Head(cs).marker \o Head(cs).body \o ChunkText(Tail(cs))

----------------------------------------------------------------------------
(* run_campaign_flow.py: validate_research_data and parse_research_results *)

MIN_RESEARCH_LEN == 50

REQUIRED_RESEARCH_FIELDS == <<"company_summary", "market_analysis", "competitor_analysis">>

\* the error validate_research_data raises for the sections, NoError when it
\* returns True
validate_research_data(data) ==
    LET missing == {k \in 1..3 : REQUIRED_RESEARCH_FIELDS[k] \notin DOMAIN data}
        short == {k \in 1..3 :
                    LET v == data[REQUIRED_RESEARCH_FIELDS[k]]
                    IN  v = <<>> \/ TextLen(Strip(v)) < MIN_RESEARCH_LEN}
    IN  IF missing # {}
        THEN Raise("ValidationError", "research", "Missing required research fields")
        ELSE IF short # {}
             THEN Raise("ValidationError", "research", "Insufficient content")
             ELSE NoError

P_basic_info ==
    [head |-> <<"1.">>, label |-> <<"**Basic Company Information**:">>,
     stops |-> << <<"2.">> >>]
P_market ==
    [head |-> <<"3.">>, label |-> <<"**Market Position**:">>,
     stops |-> << <<"4.">> >>]
P_audience ==
    [head |-> <<"4.">>, label |-> <<"**Target Audience**:">>,
     stops |-> << >>]

\* the characters of the class [-•]; the token "BULLET" stands for U+2022
BULLETS == {"-", "BULLET"}

RECURSIVE FindBullets(_, _)
\* re.findall(r'[-•]\s*(.*?)(?=[-•]|$)', t, re.DOTALL), scanning from i
FindBullets(t, i) ==
    IF i > Len(t) THEN <<>>
    ELSE IF t[i] \notin BULLETS THEN FindBullets(t, i + 1)
    ELSE Bind(SkipWs(t, i + 1), LAMBDA b :
            Bind(Least({q \in b..(Len(t) + 1) :
                            DollarAt(t, q) \/ (q <= Len(t) /\ t[q] \in BULLETS)}),
                 LAMBDA e : <<SubSeq(t, b, e - 1)>> \o FindBullets(t, e)))

RECURSIVE Join(_, _)
\* sep.join(ss)
Join(sep, ss) ==
    IF ss = <<>> THEN <<>>
    ELSE IF Len(ss) = 1 THEN ss[1]
         ELSE ss[1] \o sep \o Join(sep, Tail(ss))

\* any(sections.values())
AnySection(sections) == \E k \in 1..3 : sections[REQUIRED_RESEARCH_FIELDS[k]] # <<>>

AllSections(content) ==
    [company_summary |-> content, market_analysis |-> content, competitor_analysis |-> content]

\* the sections after the numbered format has been tried
NumberedSections(research_results) ==
    [company_summary |-> Extract(research_results, P_basic_info, <<>>),
     market_analysis |-> Extract(research_results, P_market, <<>>),
     competitor_analysis |-> Extract(research_results, P_audience, <<>>)]

\* the sections after the bullet format has been tried
BulletSections(research_results, sections) ==
    IF AnySection(sections) THEN sections
    ELSE Bind(FindBullets(research_results, 1), LAMBDA company_info :
            IF company_info # <<>>
            THEN AllSections(Strip(Join(<<"\n">>, company_info)))
            ELSE sections)

ResearchParsed(sections) == [status |-> "returned", sections |-> sections, error |-> NoError]

ResearchRaised(error) == [status |-> "raised", sections |-> AllSections(<<>>), error |-> error]

\* validate_research_data(sections); return sections
ValidatedSections(sections) ==
    IF validate_research_data(sections) = NoError
    THEN ResearchParsed(sections)
    ELSE ResearchRaised(validate_research_data(sections))

parse_research_results(research_results) ==
    Bind(BulletSections(research_results, NumberedSections(research_results)), LAMBDA sections :
        IF AnySection(sections) THEN ValidatedSections(sections)
        ELSE Bind(Strip(research_results), LAMBDA content :
                IF TextLen(content) > MIN_RESEARCH_LEN
                THEN ValidatedSections(AllSections(content))
                ELSE ResearchRaised(Raise("ParsingError", "research",
                                          "Research results too short or empty"))))

----------------------------------------------------------------------------
(* The research and marketing agents *)

\* ResearchAgent.run: the report of the three graph results, or the error
\* text when the graph raised
ResearchAgent_run(reply) ==
    IF reply.ok
    THEN <<"Research Questions:", "\n">> \o reply.research_questions
         \o <<"\n", "\n", "Raw Findings:", "\n">> \o reply.raw_findings
         \o <<"\n", "\n", "Analysis:", "\n">> \o reply.analysis
    ELSE <<"Error during research:", " ">> \o reply.message

\* mutant: everything after the first "Action Input:" is kept
generate_campaigns_AfterFirst(content) ==
    IF \A i \in 1..Len(content) : content[i] # "Action Input:" THEN content
    ELSE Strip(SubSeq(content,
                      1 + (CHOOSE i \in 1..Len(content) :
                              /\ content[i] = "Action Input:"
                              /\ \A j \in 1..(i - 1) : content[j] # "Action Input:"),
                      Len(content)))

\* GraphNodes.generate_campaigns of the marketing graph: the text after the
\* first "Action Input:" up to the next one, or the whole content
generate_campaigns(content) ==
    Bind(SplitOn(content, "Action Input:", 1, 1), LAMBDA sections :
        IF Len(sections) < 2 THEN content ELSE Strip(sections[2]))

\* MarketingAgent.run
MarketingAgent_run(reply) ==
    IF reply.ok
    THEN generate_campaigns(reply.content)
    ELSE <<"Error during campaign generation:", " ">> \o reply.message

----------------------------------------------------------------------------
(* AdGen workflow graph: nodes and edges *)

END == "__end__"

ENTRY_POINT == "analyze_strategy_node"

Nodes ==
    {"analyze_strategy_node", "creative_direction_node",
     "campaign_assets_node", "quality_check_node"}

Edges ==
    { <<"analyze_strategy_node", "creative_direction_node">>,
      <<"creative_direction_node", "campaign_assets_node">>,
      <<"campaign_assets_node", END>> }

\* add_conditional_edges("quality_check_node", should_regenerate, {...})
ConditionalSources == {"quality_check_node"}

ConditionalTarget(branch) ==
    IF branch = "campaign_assets" THEN "campaign_assets_node" ELSE END

\* the node that runs after n has returned state
NextNode(n, state) ==
    IF n \in ConditionalSources
    THEN ConditionalTarget(should_regenerate(state))
    ELSE CHOOSE t \in Nodes \cup {END} : <<n, t>> \in Edges

\* the content the language model answers to a prompt: determined by the
\* prompt and the values formatted into it
LLM(prompt, inputs) == [prompt |-> prompt, inputs |-> inputs]

\* {**first, **second}
DictUnpack(first, second) == second @@ first

\* mutant: the analysis replaces the strategy inputs
analyze_strategy_AnalysisOnly(state) ==
    [state EXCEPT !.strategy_analysis =
        [analysis |-> LLM("STRATEGY_ANALYSIS_PROMPT",
                          <<state.strategy_analysis.brand_info,
                            state.strategy_analysis.target_audience,
                            state.strategy_analysis.campaign_goals>>)]]

analyze_strategy(state) ==
    LET strategy_analysis ==
            LLM("STRATEGY_ANALYSIS_PROMPT",
                <<state.strategy_analysis.brand_info,
                  state.strategy_analysis.target_audience,
                  state.strategy_analysis.campaign_goals>>)
    IN  [state EXCEPT !.strategy_analysis =
            DictUnpack([analysis |-> strategy_analysis], state.strategy_analysis)]

generate_creative_direction(state) ==
    LET creative_direction ==
            LLM("CREATIVE_DIRECTION_PROMPT", <<state.strategy_analysis.analysis>>)
    IN  [state EXCEPT !.creative_direction =
            DictUnpack([direction |-> creative_direction], Get(state, "creative_direction", <<>>))]

\* the longest prefix of text of at most n characters
RECURSIVE TakeChars(_, _)
TakeChars(text, n) ==
    IF text = <<>> \/ TokLen(Head(text)) > n THEN <<>>
    ELSE <<Head(text)>> \o TakeChars(Tail(text), n - TokLen(Head(text)))

\* the last position of "." in text, 0 when there is none
LastPeriod(text) ==
    IF \E i \in 1..Len(text) : text[i] = "."
    THEN CHOOSE i \in 1..Len(text) : text[i] = "." /\ \A j \in (i + 1)..Len(text) : text[j] # "."
    ELSE 0

truncate_text(text, max_length) ==
    IF text = <<>> \/ TextLen(text) <= max_length THEN text
    ELSE Bind(TakeChars(text, max_length), LAMBDA truncated :
            IF LastPeriod(truncated) > 1
            THEN SubSeq(text, 1, LastPeriod(truncated))
            ELSE truncated)

MAX_NAME_LEN == 100
MAX_PROMPT_LEN == 400
MAX_SUMMARY_LEN == 200

\* the keys generate_campaign_assets subscripts on every idea
IDEA_KEYS ==
    {"core_message", "visual_theme_description", "key_emotional_appeal",
     "campaign_name", "prompt_suggestions"}

\* one iteration of the loop of generate_campaign_assets
AssetsOf(idea) ==
    LET campaign_name == truncate_text(idea.campaign_name, MAX_NAME_LEN)
        product_prompt == truncate_text(Get(idea.prompt_suggestions, "product_focused", <<>>), MAX_PROMPT_LEN)
        brand_prompt == truncate_text(Get(idea.prompt_suggestions, "brand_focused", <<>>), MAX_PROMPT_LEN)
        social_prompt == truncate_text(Get(idea.prompt_suggestions, "social_media", <<>>), MAX_PROMPT_LEN)
        summary_prompt == truncate_text(campaign_name \o <<":", " ">> \o idea.core_message, MAX_SUMMARY_LEN)
    IN  [tagline |-> LLM("TAGLINE_GENERATION_PROMPT",
                         <<idea.core_message, idea.visual_theme_description, idea.key_emotional_appeal>>),
         story |-> LLM("STORY_GENERATION_PROMPT",
                       <<idea.core_message, idea.visual_theme_description, idea.key_emotional_appeal>>),
         image_prompt |-> LLM("IMAGE_PROMPT_GENERATION",
                              <<campaign_name, product_prompt, brand_prompt, social_prompt, summary_prompt>>)]

\* mutant: the assets are appended in reverse order
generate_campaign_assets_Reversed(state) ==
    LET campaign_ideas == Get(state, "campaign_ideas", <<>>)
        n == Len(campaign_ideas)
    IN  [state EXCEPT !.campaign_assets = [i \in 1..n |-> AssetsOf(campaign_ideas[n + 1 - i])]]

generate_campaign_assets(state) ==
    LET campaign_ideas == Get(state, "campaign_ideas", <<>>)
    IN  [state EXCEPT !.campaign_assets =
            [i \in 1..Len(campaign_ideas) |-> AssetsOf(campaign_ideas[i])]]

\* generate_campaign_assets raises KeyError on an idea without one of the keys
AssetsKeyError(state) ==
    \E i \in 1..Len(Get(state, "campaign_ideas", <<>>)) :
        ~(IDEA_KEYS \subseteq DOMAIN state.campaign_ideas[i])

\* quality_check with the verdict the model answers for every asset
quality_check(state, verdict) ==
    LET assets == Get(state, "campaign_assets", <<>>)
    IN  [state EXCEPT !.campaign_assets =
            [i \in 1..Len(assets) |-> DictUnpack(assets[i], [quality_check |-> verdict])]]

\* the function add_node registered under the name n
RunNode(n, state, verdict) ==
    CASE n = "analyze_strategy_node" -> analyze_strategy(state)
      [] n = "creative_direction_node" -> generate_creative_direction(state)
      [] n = "campaign_assets_node" -> generate_campaign_assets(state)
      [] n = "quality_check_node" -> quality_check(state, verdict)

----------------------------------------------------------------------------
(* orchestrator.py: directories and files *)

\* str.isalnum() on a single-character token
IsAlnumChar(c) ==
    \/ \E i \in 1..26 : c = UpperChars[i] \/ c = LowerChars[i]
    \/ \E i \in 1..10 : c = Digits[i]

\* "".join(c if c.isalnum() else "_" for c in tok) for one token
SanitizeToken(tok) ==
    IF tok \in DOMAIN SanitizedWord THEN SanitizedWord[tok]
    ELSE IF tok \in DOMAIN WordLen \/ IsAlnumChar(tok) THEN <<tok>>
         ELSE <<"_">>

RECURSIVE SanitizeTokens(_)
SanitizeTokens(filename) ==
    IF filename = <<>> THEN <<>>
    ELSE SanitizeToken(Head(filename)) \o SanitizeTokens(Tail(filename))

RECURSIVE StripUnderscores(_)
\* str.strip("_")
StripUnderscores(s) ==
    IF s # <<>> /\ Head(s) = "_" THEN StripUnderscores(Tail(s))
    ELSE IF s # <<>> /\ s[Len(s)] = "_" THEN StripUnderscores(SubSeq(s, 1, Len(s) - 1))
         ELSE s

\* mutant: the underscores at the ends are kept
_sanitize_filename_Unstripped(filename) == SanitizeTokens(filename)

_sanitize_filename(filename) == StripUnderscores(SanitizeTokens(filename))

\* the directory _create_campaign_directory makes when the clock reads now:
\* output_dir/{sanitized_name}_{timestamp}, the timestamp to the second
_create_campaign_directory(campaign_name, now) ==
    [name |-> _sanitize_filename(campaign_name), timestamp |-> now]

\* os.path.join(campaign_dir, filename)
Path(campaign_dir, filename) == [dir |-> campaign_dir, file |-> filename]

\* None where a path is expected
NoPath == [dir |-> [name |-> <<>>, timestamp |-> 0], file |-> "None"]

\* open(path, 'w').write(content)
Write(files, path, content) ==
    [p \in (DOMAIN files) \cup {path} |-> IF p = path THEN content ELSE files[p]]

\* image_gen.py: SDXLTurboGenerator.generate_image returns the path of the
\* image it wrote, or fails with an exception
ImageOutcomes == {"path", "raise"}

\* mutant: story.txt is not written
SaveTexts_TaglineOnly(files, campaign_dir, assets) ==
    Write(files, Path(campaign_dir, "tagline.txt"), assets.tagline)

\* the files of _save_campaign_assets up to the call of generate_image
SaveTexts(files, campaign_dir, assets) ==
    Write(Write(files, Path(campaign_dir, "tagline.txt"), assets.tagline),
          Path(campaign_dir, "story.txt"), assets.story)

\* _save_text_asset: the file whose open or write raises, "none" when every
\* write goes through
WriteOutcomes == {"none", "tagline.txt", "story.txt", "campaign_details.json"}

\* mutant: a failed _save_campaign_assets leaves none of its files
SaveTextsUntil_RolledBack(files, campaign_dir, assets, failing) == files

\* the files of _save_campaign_assets written before the failing write, all
\* the text files when the failure comes later
SaveTextsUntil(files, campaign_dir, assets, failing) ==
    IF failing = "tagline.txt" THEN files
    ELSE IF failing = "story.txt"
         THEN Write(files, Path(campaign_dir, "tagline.txt"), assets.tagline)
         ELSE SaveTexts(files, campaign_dir, assets)

\* the files of _save_campaign_assets when generate_image did not raise
SaveAssets(files, campaign_dir, assets, image) ==
    LET texts == SaveTexts(files, campaign_dir, assets)
        imaged == IF image = "path"
                  THEN Write(texts, Path(campaign_dir, "image.png"), [image_of |-> assets.image_prompt])
                  ELSE texts
    IN  IF "quality_check" \in DOMAIN assets
        THEN Write(imaged, Path(campaign_dir, "quality_check.txt"), assets.quality_check)
        ELSE imaged

\* the dictionary _save_campaign_assets returns
AssetPaths(campaign_dir, assets, image) ==
    [tagline |-> Path(campaign_dir, "tagline.txt"),
     story |-> Path(campaign_dir, "story.txt"),
     image |-> IF image = "path" THEN Path(campaign_dir, "image.png") ELSE NoPath,
     quality_check |-> IF "quality_check" \in DOMAIN assets
                       THEN Path(campaign_dir, "quality_check.txt") ELSE NoPath]

\* json.dumps(campaign_details, indent=2)
CampaignDetails(idea, final_state, campaign_dir, assets, image) ==
    [json |->
        DictUnpack(idea,
            [strategy_analysis |-> final_state.strategy_analysis,
             creative_direction |-> final_state.creative_direction,
             generated_assets |->
                DictUnpack(AssetPaths(campaign_dir, assets, image),
                    [tagline_content |-> assets.tagline,
                     story_content |-> assets.story,
                     image_prompt |-> assets.image_prompt,
                     quality_check |-> Get(assets, "quality_check", <<>>)])])]

\* the record generate_campaign appends to results
ResultRecord(campaign_name, campaign_dir, assets, image) ==
    [campaign_name |-> campaign_name,
     campaign_dir |-> campaign_dir,
     assets |-> DictUnpack(AssetPaths(campaign_dir, assets, image),
                           [details |-> Path(campaign_dir, "campaign_details.json")])]

\* initial_state of generate_campaign
InitialState(brand_info, target_audience, campaign_goals, campaign_ideas) ==
    [strategy_analysis |->
        [brand_info |-> brand_info, target_audience |-> target_audience,
         campaign_goals |-> campaign_goals],
     campaign_ideas |-> campaign_ideas,
     creative_direction |-> <<>>,
     campaign_assets |-> <<>>]

----------------------------------------------------------------------------
(* Inputs of the end-to-end run *)

MaxIdeas == 2
MaxClock == 2
MaxTextLen == 4
MaxCap == 3
MaxNameLen == 4
MaxMetricsLen == 3
MaxRequests == 3
MaxContentLen == 4
MaxPad == 12

TARGET_AUDIENCE == <<"Urban professionals value sustainability">>

COMPANY_PROSE == <<"EcoTech builds energy saving thermostats for modern homes">>

RESEARCH_QUESTIONS == <<"Who buys smart thermostats">>

ResearchOk(questions, findings, analysis) ==
    [ok |-> TRUE, research_questions |-> questions, raw_findings |-> findings,
     analysis |-> analysis, message |-> <<>>]

\* the language model or the search tool raised inside the research graph
ResearchFails(message) ==
    [ok |-> FALSE, research_questions |-> <<>>, raw_findings |-> <<>>,
     analysis |-> <<>>, message |-> message]

NumberedFindings ==
    <<"1.", " ", "**Basic Company Information**:", " ">> \o COMPANY_PROSE
    \o <<"\n", "2.", " ", "Foo", "\n", "3.", " ", "**Market Position**:", " ">> \o COMPANY_PROSE
    \o <<"\n", "4.", " ", "**Target Audience**:", " ">> \o COMPANY_PROSE

PartialFindings == <<"1.", " ", "**Basic Company Information**:", " ">> \o COMPANY_PROSE

BulletFindings == <<"-", " ", "Foo", "\n", "-", " ">> \o COMPANY_PROSE

ResearchReplies ==
    { ResearchOk(RESEARCH_QUESTIONS, COMPANY_PROSE, TARGET_AUDIENCE),
      ResearchOk(RESEARCH_QUESTIONS, NumberedFindings, TARGET_AUDIENCE),
      ResearchOk(RESEARCH_QUESTIONS, PartialFindings, TARGET_AUDIENCE),
      ResearchOk(RESEARCH_QUESTIONS, BulletFindings, TARGET_AUDIENCE),
      ResearchOk(RESEARCH_QUESTIONS, <<"-", " ", "Foo">>, <<"Bar">>),
      ResearchOk(<<>>, <<>>, <<>>),
      ResearchFails(<<"timeout">>),
      ResearchFails(<<"Connection to the model endpoint timed out">>) }

MarketingOk(content) == [ok |-> TRUE, content |-> content, message |-> <<>>]

\* the language model raised inside the marketing graph
MarketingFails(message) == [ok |-> FALSE, content |-> <<>>, message |-> message]

MarketingReplies ==
    { MarketingOk(<<"Foo", " ", "Action Input:", "\n">> \o MARKER3 \o BodyValid),
      MarketingOk(<<"Action Input:", " ">> \o MARKER3 \o BodyValid \o MARKER3 \o BodyValid),
      MarketingOk(MARKER2 \o BodyFull \o MARKER2 \o BodyNoName),
      MarketingOk(<<"Action Input:", " ">> \o MARKER3 \o BodyValid
                  \o <<"Action Input:", " ">> \o MARKER3 \o BodyFull),
      MarketingOk(BodyProse),
      MarketingOk(<<>>),
      MarketingFails(<<"timeout">>) }

\* the ideas a caller hands to generate_campaign directly
DirectIdea(name, message) ==
    [campaign_name |-> name,
     core_message |-> message,
     visual_theme_description |-> <<"Innovation">>,
     key_emotional_appeal |-> <<"Trustworthy">>,
     prompt_suggestions |-> [product_focused |-> <<"Reach">>, brand_focused |-> <<"Sales">>]]

\* an idea without prompt_suggestions
BareIdea ==
    [campaign_name |-> <<"Foo">>,
     core_message |-> <<"Bar">>,
     visual_theme_description |-> <<"Innovation">>,
     key_emotional_appeal |-> <<"Trustworthy">>]

DirectNames == { <<"Eco", " ", "Tech">>, <<"Eco", "-", "Tech">>, <<"GreenFuture">> }

DirectIdeas ==
    {DirectIdea(n, m) : n \in DirectNames, m \in {<<"Sustainable">>, <<"Innovation">>}}
    \cup {BareIdea}

\* the keys generate_single_campaign reads from its campaign argument
CONTEXT_KEYS == {"brand_info", "target_audience", "campaign_goals"}

\* the campaigns a caller hands to generate_single_campaign: with the three
\* context fields, with brand_info only, with none of them
SingleCampaigns ==
    { DictUnpack(DirectIdea(<<"GreenFuture">>, <<"Sustainable">>),
                 [brand_info |-> COMPANY_PROSE, target_audience |-> TARGET_AUDIENCE,
                  campaign_goals |-> <<"Reach">>]),
      DictUnpack(DirectIdea(<<"GreenFuture">>, <<"Sustainable">>),
                 [brand_info |-> COMPANY_PROSE]),
      DirectIdea(<<"GreenFuture">>, <<"Sustainable">>) }

\* the answers of the language model to one node: it raises, or it answers
\* (the verdict is what it answers to QUALITY_CHECK_PROMPT)
LLMReplies ==
    { [ok |-> FALSE, verdict |-> <<>>],
      [ok |-> TRUE, verdict |-> <<"P","A","S","S">>],
      [ok |-> TRUE, verdict |-> <<"F","A","I","L">>] }

----------------------------------------------------------------------------
(* run_campaign_flow and AdCampaignOrchestrator.generate_campaign *)

FlowIdle ==
    /\ entry = "none" /\ pc = "idle" /\ clock = 0 /\ current_step = "none"
    /\ research_text = <<>> /\ research = AllSections(<<>>)
    /\ marketing_text = <<>> /\ ideas = <<>>
    /\ node = "none" /\ executed = <<>>
    /\ graph_state = InitialState(<<>>, <<>>, <<>>, <<>>)
    /\ results = <<>> /\ saved = <<>> /\ fs = <<>>
    /\ raised = NoError /\ calls = <<>> /\ failed = {} /\ gen_done = FALSE

Init ==
    /\ entry \in {"flow", "generate", "single"}
    /\ ideas \in (IF entry = "flow" THEN {<<>>}
                  ELSE IF entry = "generate" THEN SeqsUpTo(DirectIdeas, MaxIdeas)
                  ELSE {<<campaign>> : campaign \in SingleCampaigns})
    /\ pc = "start" /\ clock = 0 /\ current_step = "none"
    /\ research_text = <<>> /\ research = AllSections(<<>>)
    /\ marketing_text = <<>>
    /\ node = "none" /\ executed = <<>>
    /\ graph_state = InitialState(<<>>, <<>>, <<>>, <<>>)
    /\ results = <<>> /\ saved = <<>> /\ fs = <<>>
    /\ raised = NoError /\ calls = <<>> /\ failed = {} /\ gen_done = FALSE
    /\ RouteIdle /\ ParseIdle /\ CallIdle /\ CacheIdle /\ ConcIdle /\ SessionIdle

\* mutant: the wrapper never names a step
Escaped_StepUnknown(exc_type) ==
    IF entry = "flow"
    THEN Raise("CampaignFlowError", "unknown", exc_type)
    ELSE Raise(exc_type, "none", exc_type)

\* what the caller of the entry point sees when an exception that is no
\* CampaignFlowError leaves generate_campaign: run_campaign_flow wraps it
\* with progress_tracker.current_step or 'unknown'
Escaped(exc_type) ==
    IF entry = "flow"
    THEN Raise("CampaignFlowError",
               IF current_step = "none" THEN "unknown" ELSE current_step, exc_type)
    ELSE Raise(exc_type, "none", exc_type)

\* run_campaign_flow before Step 1: load_settings, create_openai_llm or
\* create_tavily_tool raises
SetupFails ==
    /\ entry = "flow" /\ pc = "start"
    /\ pc' = "raised"
    /\ raised' = Escaped("SetupError")
    /\ failed' = failed \cup {"setup"}
    /\ UNCHANGED <<entry, clock, current_step, research_text, research,
                   marketing_text, ideas, node, executed, graph_state, results,
                   saved, fs, calls, gen_done, routeVars, parseVars, callVars,
                   cacheVars, concVars, sessionVars>>

\* Step 1 of run_campaign_flow: research_agent.run, parse_research_results
ResearchPhase ==
    /\ entry = "flow" /\ pc = "start"
    /\ current_step' = "research"
    /\ calls' = Append(calls, "research")
    /\ \E reply \in ResearchReplies :
        \E text \in {ResearchAgent_run(reply)} :
          \E parsed \in {parse_research_results(text)} :
            /\ research_text' = text
            /\ failed' = IF reply.ok THEN failed ELSE failed \cup {"research"}
            /\ IF parsed.status = "raised"
               THEN pc' = "raised" /\ raised' = parsed.error /\ UNCHANGED research
               ELSE pc' = "marketing" /\ research' = parsed.sections /\ UNCHANGED raised
    /\ UNCHANGED <<entry, clock, marketing_text, ideas, node, executed,
                   graph_state, results, saved, fs, gen_done, routeVars, parseVars, callVars, cacheVars, concVars, sessionVars>>

\* Step 2 of run_campaign_flow: marketing_agent.run, parse_campaign_ideas
MarketingPhase ==
    /\ entry = "flow" /\ pc = "marketing"
    /\ current_step' = "marketing"
    /\ calls' = Append(calls, "marketing")
    /\ \E reply \in MarketingReplies :
        \E text \in {MarketingAgent_run(reply)} :
          \E parsed \in {parse_campaign_ideas(text)} :
            /\ marketing_text' = text
            /\ failed' = IF reply.ok THEN failed ELSE failed \cup {"marketing"}
            /\ IF parsed.status = "raised"
               THEN pc' = "raised" /\ raised' = parsed.error /\ UNCHANGED ideas
               ELSE pc' = "ad_generation" /\ ideas' = parsed.campaigns /\ UNCHANGED raised
    /\ UNCHANGED <<entry, clock, research_text, research, node, executed,
                   graph_state, results, saved, fs, gen_done, routeVars, parseVars, callVars, cacheVars, concVars, sessionVars>>

\* campaign.update({...}) of run_campaign_flow
WithResearch(campaign, sections) ==
    DictUnpack(campaign,
        [brand_info |-> sections.company_summary,
         target_audience |-> TARGET_AUDIENCE,
         market_context |-> sections.market_analysis,
         competitor_insights |-> sections.competitor_analysis])

\* Step 3 of run_campaign_flow up to workflow.ainvoke inside generate_campaign
StartAdGeneration ==
    /\ entry = "flow" /\ pc = "ad_generation"
    /\ current_step' = "ad_generation"
    /\ calls' = Append(calls, "ad_generation")
    /\ \E updated \in {[i \in 1..Len(ideas) |->
                        WithResearch(ideas[i], research)]} :
        /\ ideas' = updated
        /\ graph_state' = InitialState(research.company_summary, TARGET_AUDIENCE,
                                 Join(<<";", " ">>, Get(updated[1], "success_metrics", <<>>)),
                                 updated)
    /\ node' = ENTRY_POINT
    /\ pc' = "graph"
    /\ UNCHANGED <<entry, clock, research_text, research, marketing_text,
                   executed, results, saved, fs, raised, failed, gen_done,
                   routeVars, parseVars, callVars, cacheVars, concVars, sessionVars>>

\* generate_campaign called directly, up to workflow.ainvoke
StartGenerateCampaign ==
    /\ entry = "generate" /\ pc = "start"
    /\ calls' = Append(calls, "ad_generation")
    /\ graph_state' = InitialState(COMPANY_PROSE, TARGET_AUDIENCE, <<"Reach">>, ideas)
    /\ node' = ENTRY_POINT
    /\ pc' = "graph"
    /\ UNCHANGED <<entry, clock, current_step, research_text, research,
                   marketing_text, ideas, executed, results, saved, fs,
                   raised, failed, gen_done, routeVars, parseVars, callVars, cacheVars, concVars, sessionVars>>

\* generate_single_campaign(campaign), up to workflow.ainvoke inside
\* generate_campaign: a context field the campaign lacks is passed as ""
StartGenerateSingle ==
    /\ entry = "single" /\ pc = "start"
    /\ calls' = Append(calls, "ad_generation")
    /\ graph_state' = InitialState(Get(ideas[1], "brand_info", <<>>),
                                   Get(ideas[1], "target_audience", <<>>),
                                   Get(ideas[1], "campaign_goals", <<>>),
                                   ideas)
    /\ node' = ENTRY_POINT
    /\ pc' = "graph"
    /\ UNCHANGED <<entry, clock, current_step, research_text, research,
                   marketing_text, ideas, executed, results, saved, fs,
                   raised, failed, gen_done, routeVars, parseVars, callVars, cacheVars, concVars, sessionVars>>

\* workflow.ainvoke: the node the graph is at runs, and the edge out of it
\* is followed; an exception of the node leaves generate_campaign
GraphStep ==
    /\ pc = "graph"
    /\ \E reply \in LLMReplies :
        IF ~reply.ok \/ (node = "campaign_assets_node" /\ AssetsKeyError(graph_state))
        THEN /\ pc' = "raised"
             /\ raised' = Escaped(IF reply.ok THEN "KeyError" ELSE "LLMError")
             /\ failed' = IF reply.ok THEN failed ELSE failed \cup {"llm"}
             /\ UNCHANGED <<node, executed, graph_state>>
        ELSE /\ \E returned \in {RunNode(node, graph_state, reply.verdict)} :
                \E target \in {NextNode(node, returned)} :
                    /\ graph_state' = returned
                    /\ node' = target
                    /\ pc' = IF target = END THEN "persist" ELSE "graph"
             /\ executed' = Append(executed, node)
             /\ UNCHANGED <<raised, failed>>
    /\ UNCHANGED <<entry, clock, current_step, research_text, research,
                   marketing_text, ideas, results, saved, fs, calls,
                   gen_done, routeVars, parseVars, callVars, cacheVars, concVars, sessionVars>>

\* one iteration of the loop over final_state["campaign_assets"]
PersistCampaign ==
    /\ pc = "persist"
    /\ Len(results) < Len(graph_state.campaign_assets)
    /\ \E image \in ImageOutcomes : \E failing \in WriteOutcomes :
        \E assets \in {graph_state.campaign_assets[Len(results) + 1]} :
          \E idea \in {ideas[Len(results) + 1]} :
            \E campaign_dir \in {_create_campaign_directory(idea.campaign_name, clock)} :
                /\ saved' = Append(saved, [campaign_dir |-> campaign_dir, assets |-> assets])
                /\ IF failing \in {"tagline.txt", "story.txt"}
                   THEN /\ fs' = SaveTextsUntil(fs, campaign_dir, assets, failing)
                        /\ pc' = "raised"
                        /\ raised' = Escaped("OSError")
                        /\ failed' = failed \cup {failing}
                        /\ UNCHANGED results
                   ELSE IF image = "raise"
                   THEN /\ fs' = SaveTextsUntil(fs, campaign_dir, assets, "image")
                        /\ pc' = "raised"
                        /\ raised' = Escaped("ImageGenerationError")
                        /\ failed' = failed \cup {"image"}
                        /\ UNCHANGED results
                   ELSE IF failing = "campaign_details.json"
                   THEN /\ fs' = SaveAssets(fs, campaign_dir, assets, image)
                        /\ pc' = "raised"
                        /\ raised' = Escaped("OSError")
                        /\ failed' = failed \cup {failing}
                        /\ UNCHANGED results
                   ELSE /\ fs' = Write(SaveAssets(fs, campaign_dir, assets, image),
                                       Path(campaign_dir, "campaign_details.json"),
                                       CampaignDetails(idea, graph_state, campaign_dir, assets, image))
                        /\ results' = Append(results,
                                ResultRecord(idea.campaign_name, campaign_dir, assets, image))
                        /\ UNCHANGED <<pc, raised, failed>>
    /\ UNCHANGED <<entry, clock, current_step, research_text, research,
                   marketing_text, ideas, node, executed, graph_state, calls,
                   gen_done, routeVars, parseVars, callVars, cacheVars, concVars, sessionVars>>

\* a second of wall-clock time passes while the campaigns are persisted
Tick ==
    /\ pc = "persist"
    /\ clock < MaxClock
    /\ clock' = clock + 1
    /\ UNCHANGED <<entry, pc, current_step, research_text, research,
                   marketing_text, ideas, node, executed, graph_state, results,
                   saved, fs, raised, calls, failed, gen_done, routeVars, parseVars, callVars, cacheVars, concVars, sessionVars>>

\* generate_campaign returns results.  run_campaign_flow then evaluates
\* campaign_results.get('assets', []) on the list it got back, which raises
\* AttributeError, and the handler for Exception wraps it
FinishGenerate ==
    /\ pc = "persist"
    /\ Len(results) = Len(graph_state.campaign_assets)
    /\ gen_done' = TRUE
    /\ IF entry = "flow"
       THEN pc' = "raised" /\ raised' = Escaped("AttributeError")
       ELSE pc' = "returned" /\ UNCHANGED raised
    /\ UNCHANGED <<entry, clock, current_step, research_text, research,
                   marketing_text, ideas, node, executed, graph_state, results,
                   saved, fs, calls, failed, routeVars, parseVars, callVars, cacheVars, concVars, sessionVars>>

Next ==
    \/ SetupFails
    \/ ResearchPhase
    \/ MarketingPhase
    \/ StartAdGeneration
    \/ StartGenerateCampaign
    \/ StartGenerateSingle
    \/ GraphStep
    \/ PersistCampaign
    \/ Tick
    \/ FinishGenerate

Spec == Init /\ [][Next]_vars

----------------------------------------------------------------------------
(* The conditional edge as a function of the graph_state quality_check leaves *)

InitRoute ==
    /\ rAssets \in SeqsUpTo(RouteAssets, MaxAssets)
    /\ rAttempts \in 1..MaxAttempts
    /\ rRoute = "none"
    /\ ParseIdle /\ FlowIdle /\ CallIdle /\ CacheIdle /\ ConcIdle /\ SessionIdle

\* the conditional edge is evaluated on the graph_state quality_check left
RouteDecision ==
    /\ rRoute = "none"
    /\ rRoute' = should_regenerate([campaign_assets |-> rAssets])
    /\ UNCHANGED <<rAssets, rAttempts, parseVars, flowVars, callVars, cacheVars, concVars, sessionVars>>

NextRoute == RouteDecision

SpecRoute == InitRoute /\ [][NextRoute]_vars

----------------------------------------------------------------------------
(* parse_campaign_ideas as a function of the marketing text *)

InitParse ==
    /\ pChunks \in SeqsUpTo(Chunks, MaxChunks)
    /\ pText = ChunkText(pChunks)
    /\ pResult = Pending
    /\ RouteIdle /\ FlowIdle /\ CallIdle /\ CacheIdle /\ ConcIdle /\ SessionIdle

ParseCall ==
    /\ pResult.status = "pending"
    /\ \E result \in {parse_campaign_ideas(pText)} : pResult' = result
    /\ UNCHANGED <<pChunks, pText, routeVars, flowVars, callVars, cacheVars, concVars, sessionVars>>

NextParse == ParseCall

SpecParse == InitParse /\ [][NextParse]_vars

----------------------------------------------------------------------------
(* truncate_text called on its own, on texts of single characters *)

Texts == SeqsUpTo({".", "a"}, MaxTextLen)

InitTruncate ==
    /\ callee = "truncate_text"
    /\ args \in Texts \X (1..MaxCap)
    /\ ret = NotCalled
    /\ RouteIdle /\ ParseIdle /\ FlowIdle /\ CacheIdle /\ ConcIdle /\ SessionIdle

TruncateCall ==
    /\ callee = "truncate_text" /\ ~ret.done
    /\ \E value \in {truncate_text(args[1], args[2])} :
            ret' = [done |-> TRUE, value |-> value]
    /\ UNCHANGED <<callee, args, routeVars, parseVars, flowVars, cacheVars, concVars, sessionVars>>

NextTruncate == TruncateCall

SpecTruncate == InitTruncate /\ [][NextTruncate]_vars

----------------------------------------------------------------------------
(* _sanitize_filename called on its own, on names of single characters *)

NameChars == {"a", "Z", "7", "_", "/", " "}

InitSanitize ==
    /\ callee = "_sanitize_filename"
    /\ args \in {<<filename>> : filename \in SeqsUpTo(NameChars, MaxNameLen)}
    /\ ret = NotCalled
    /\ RouteIdle /\ ParseIdle /\ FlowIdle /\ CacheIdle /\ ConcIdle /\ SessionIdle

SanitizeCall ==
    /\ callee = "_sanitize_filename" /\ ~ret.done
    /\ \E value \in {_sanitize_filename(args[1])} :
            ret' = [done |-> TRUE, value |-> value]
    /\ UNCHANGED <<callee, args, routeVars, parseVars, flowVars, cacheVars, concVars, sessionVars>>

NextSanitize == SanitizeCall

SpecSanitize == InitSanitize /\ [][NextSanitize]_vars

----------------------------------------------------------------------------
(* app.py: parse_campaign_details, as far as the success metrics of each
   campaign it returns *)

\* the position after a run of digits that starts at i (regex \d+ when it
\* is past i)
RECURSIVE SkipDigits(_, _)
SkipDigits(t, i) ==
    IF i <= Len(t) /\ (\E d \in 1..10 : t[i] = Digits[d]) THEN SkipDigits(t, i + 1) ELSE i

IDEA_MARKER == <<"Campaign", " ", "Idea", " ">>

\* the length of the match of 'Campaign Idea \d+:' at i, 0 when there is none
IdeaMarkerLen(t, i) ==
    IF ~StartsAt(t, IDEA_MARKER, i) THEN 0
    ELSE LET d == SkipDigits(t, i + Len(IDEA_MARKER))
         IN  IF d > i + Len(IDEA_MARKER) /\ d <= Len(t) /\ t[d] = ":"
             THEN d + 1 - i ELSE 0

RECURSIVE SplitIdeas(_, _, _)
\* re.split(r'Campaign Idea \d+:', t)
SplitIdeas(t, i, start) ==
    IF i > Len(t) THEN <<SubSeq(t, start, Len(t))>>
    ELSE Bind(IdeaMarkerLen(t, i), LAMBDA n :
            IF n > 0
            THEN <<SubSeq(t, start, i - 1)>> \o SplitIdeas(t, i + n, i + n)
            ELSE SplitIdeas(t, i + 1, start))

METRICS_HEADS == << <<"7", ".">>, <<"Success Metrics:">>, <<"Success Metrics">> >>
METRICS_STOPS == << <<"8", ".">>, <<"Budget", " ", "Allocation">> >>

\* the position after (?:7\.|Success Metrics:?) matched at i, 0 when it does
\* not match at i
MetricsHeadEnd(t, i) ==
    IF \E h \in 1..Len(METRICS_HEADS) : StartsAt(t, METRICS_HEADS[h], i)
    THEN i + Len(METRICS_HEADS[CHOOSE h \in 1..Len(METRICS_HEADS) : StartsAt(t, METRICS_HEADS[h], i)])
    ELSE 0

MetricsStopAt(t, q) ==
    DollarAt(t, q) \/ \E k \in 1..Len(METRICS_STOPS) : StartsAt(t, METRICS_STOPS[k], q)

\* metrics_match: re.search of
\* (?:7\.|Success Metrics:?)\s*(.*?)(?=8\.|Budget Allocation|$) with re.DOTALL
MetricsMatch(section) ==
    Bind({i \in 1..Len(section) : MetricsHeadEnd(section, i) # 0}, LAMBDA starts :
        IF starts = {} THEN [found |-> FALSE, group |-> <<>>]
        ELSE Bind(SkipWs(section, MetricsHeadEnd(section, Least(starts))), LAMBDA b :
                [found |-> TRUE,
                 group |-> SubSeq(section, b,
                                  Least({q \in b..(Len(section) + 1) : MetricsStopAt(section, q)}) - 1)]))

RECURSIVE StrippedAll(_)
\* [m.strip() for m in pieces]
StrippedAll(pieces) ==
    IF pieces = <<>> THEN <<>> ELSE <<Strip(Head(pieces))>> \o StrippedAll(Tail(pieces))

\* metrics of one section of parse_campaign_details
DetailsMetrics(section) ==
    Bind(MetricsMatch(section), LAMBDA m :
        IF m.found THEN StrippedAll(SplitOn(Strip(m.group), ",", 1, 1)) ELSE <<>>)

RECURSIVE DetailsOfSections(_)
DetailsOfSections(sections) ==
    IF sections = <<>> THEN <<>>
    ELSE <<[success_metrics |-> DetailsMetrics(Head(sections))]>>
         \o DetailsOfSections(Tail(sections))

\* parse_campaign_details: one campaign per non-blank section, here with its
\* success_metrics only
parse_campaign_details(marketing_results) ==
    DetailsOfSections(StrippedNonEmpty(SplitIdeas(marketing_results, 1, 1)))

----------------------------------------------------------------------------
(* the two parsers called on a campaign text whose success metrics are
   drawn from words, commas, blanks and newlines *)

MetricsTokens == {"Reach", "Sales", ",", " ", "\n"}

MetricsTexts == SeqsUpTo(MetricsTokens, MaxMetricsLen)

\* a campaign text that ends with its success metrics
CampaignWithMetrics(header, metrics_text) ==
    header
    \o Field(<<"Campaign", " ", "Name:">>, <<"GreenFuture">>)
    \o Field(<<"Core Message:">>, <<"Sustainable">>)
    \o Field(<<"Visual Theme", " ", "Description", ":">>, <<"Innovation">>)
    \o Field(<<"Key", " ", "Emotional Appeal:">>, <<"Trustworthy">>)
    \o <<"Success Metrics:", " ">> \o metrics_text

RECURSIVE MetricsOf(_)
\* the success_metrics of every campaign of a list
MetricsOf(campaigns) ==
    IF campaigns = <<>> THEN <<>>
    ELSE <<Head(campaigns).success_metrics>> \o MetricsOf(Tail(campaigns))

InitMetrics ==
    /\ callee \in {"parse_campaign_ideas", "parse_campaign_details"}
    /\ args \in {<<metrics_text>> : metrics_text \in MetricsTexts}
    /\ ret = NotCalled
    /\ RouteIdle /\ ParseIdle /\ FlowIdle /\ CacheIdle /\ ConcIdle /\ SessionIdle

\* run_campaign_flow.py: parse_campaign_ideas on the text
IdeasMetricsCall ==
    /\ callee = "parse_campaign_ideas" /\ ~ret.done
    /\ \E parsed \in {parse_campaign_ideas(
                          CampaignWithMetrics(MARKER3 \o <<"1", ":", "\n">>, args[1]))} :
            ret' = [done |-> TRUE, value |-> MetricsOf(parsed.campaigns)]
    /\ UNCHANGED <<callee, args, routeVars, parseVars, flowVars, cacheVars, concVars, sessionVars>>

\* app.py: parse_campaign_details on the text
DetailsMetricsCall ==
    /\ callee = "parse_campaign_details" /\ ~ret.done
    /\ \E parsed \in {parse_campaign_details(
                          CampaignWithMetrics(IDEA_MARKER \o <<"1", ":", "\n">>, args[1]))} :
            ret' = [done |-> TRUE, value |-> MetricsOf(parsed)]
    /\ UNCHANGED <<callee, args, routeVars, parseVars, flowVars, cacheVars, concVars, sessionVars>>

NextMetrics == IdeasMetricsCall \/ DetailsMetricsCall

SpecMetrics == InitMetrics /\ [][NextMetrics]_vars

----------------------------------------------------------------------------
(* app.py and enhanced_app.py: get_research_data and get_marketing_data with
   the caches of st.session_state.  What an agent returns is represented by
   the company and the audience it was run for. *)

Companies == {<<"Eco">>, <<"Eco", "_", "Tech">>}

Audiences == {<<"Reach">>, <<"Tech", "_", "Reach">>}

\* f"{company}_{audience}"
ResearchKey(company, audience) == company \o <<"_">> \o audience

\* f"marketing_{company}"
MarketingKey(company) == <<"marketing", "_">> \o company

\* what agent.run returns for the request: the text about the company and
\* the audience, or the text of the exception the agent caught
AgentRun(agent, company, audience, ok) ==
    [agent |-> agent, company |-> company, audience |-> audience, error |-> ~ok]

\* the dictionary stored in a cache and returned to the caller
CacheEntry(data, now, source) ==
    [result |-> data, timestamp |-> now, source |-> source]

\* cache[cache_key] = result
Store(cache, cache_key, result) ==
    [k \in (DOMAIN cache) \cup {cache_key} |-> IF k = cache_key THEN result ELSE cache[k]]

\* one call of a cache function: its arguments, the runs of the agent it
\* awaited and the entry it returned
Served(function, company, audience, force_new, cache_key, invocations, result) ==
    [function |-> function, company |-> company, audience |-> audience,
     force_new |-> force_new, cache_key |-> cache_key,
     invocations |-> invocations, served |-> result]

InitCache ==
    /\ research_cache = <<>>
    /\ marketing_cache = <<>>
    /\ requests = <<>>
    /\ RouteIdle /\ ParseIdle /\ FlowIdle /\ CallIdle /\ ConcIdle /\ SessionIdle

\* mutant: a cached entry is returned even when force_new is set
get_research_data_IgnoresForce(company, audience, force_new) ==
    /\ Len(requests) < MaxRequests
    /\ \E cache_key \in {ResearchKey(company, audience)} :
         IF cache_key \in DOMAIN research_cache
         THEN /\ requests' = Append(requests,
                    Served("get_research_data", company, audience, force_new,
                           cache_key, <<>>, research_cache[cache_key]))
              /\ UNCHANGED research_cache
         ELSE \E ok \in BOOLEAN :
              \E research_data \in {AgentRun("research", company, audience, ok)} :
              \E result \in {CacheEntry(research_data, Len(requests), "new_research")} :
              /\ research_cache' = Store(research_cache, cache_key, result)
              /\ requests' = Append(requests,
                    Served("get_research_data", company, audience, force_new,
                           cache_key, <<research_data>>, result))
    /\ UNCHANGED <<marketing_cache, routeVars, parseVars, flowVars, callVars, concVars>>

get_research_data(company, audience, force_new) ==
    /\ Len(requests) < MaxRequests
    /\ \E cache_key \in {ResearchKey(company, audience)} :
         IF ~force_new /\ cache_key \in DOMAIN research_cache
         THEN /\ requests' = Append(requests,
                    Served("get_research_data", company, audience, force_new,
                           cache_key, <<>>, research_cache[cache_key]))
              /\ UNCHANGED research_cache
         ELSE \E ok \in BOOLEAN :
              \E research_data \in {AgentRun("research", company, audience, ok)} :
              \E result \in {CacheEntry(research_data, Len(requests), "new_research")} :
              /\ research_cache' = Store(research_cache, cache_key, result)
              /\ requests' = Append(requests,
                    Served("get_research_data", company, audience, force_new,
                           cache_key, <<research_data>>, result))
    /\ UNCHANGED <<marketing_cache, routeVars, parseVars, flowVars, callVars, concVars>>

get_marketing_data(company, audience, force_new) ==
    /\ Len(requests) < MaxRequests
    /\ \E cache_key \in {MarketingKey(company)} :
         IF ~force_new /\ cache_key \in DOMAIN marketing_cache
         THEN /\ requests' = Append(requests,
                    Served("get_marketing_data", company, audience, force_new,
                           cache_key, <<>>, marketing_cache[cache_key]))
              /\ UNCHANGED marketing_cache
         ELSE \E ok \in BOOLEAN :
              \E marketing_data \in {AgentRun("marketing", company, audience, ok)} :
              \E result \in {CacheEntry(marketing_data, Len(requests), "new_analysis")} :
              /\ marketing_cache' = Store(marketing_cache, cache_key, result)
              /\ requests' = Append(requests,
                    Served("get_marketing_data", company, audience, force_new,
                           cache_key, <<marketing_data>>, result))
    /\ UNCHANGED <<research_cache, routeVars, parseVars, flowVars, callVars, concVars>>

GetResearchData ==
    \E company \in Companies : \E audience \in Audiences : \E force_new \in BOOLEAN :
        get_research_data(company, audience, force_new) /\ UNCHANGED sessionVars

GetMarketingData ==
    \E company \in Companies : \E audience \in Audiences : \E force_new \in BOOLEAN :
        get_marketing_data(company, audience, force_new) /\ UNCHANGED sessionVars

NextCache == GetResearchData \/ GetMarketingData

SpecCache == InitCache /\ [][NextCache]_vars

----------------------------------------------------------------------------
(* generate_campaigns of the marketing graph called on its own, on the
   content of a response of the language model *)

ContentTokens == {"Action Input:", "Foo", " ", "\n"}

InitActionInput ==
    /\ callee = "generate_campaigns"
    /\ args \in {<<content>> : content \in SeqsUpTo(ContentTokens, MaxContentLen)}
    /\ ret = NotCalled
    /\ RouteIdle /\ ParseIdle /\ FlowIdle /\ CacheIdle /\ ConcIdle /\ SessionIdle

GenerateCampaignsCall ==
    /\ callee = "generate_campaigns" /\ ~ret.done
    /\ \E value \in {generate_campaigns(args[1])} :
            ret' = [done |-> TRUE, value |-> value]
    /\ UNCHANGED <<callee, args, routeVars, parseVars, flowVars, cacheVars, concVars, sessionVars>>

NextActionInput == GenerateCampaignsCall

SpecActionInput == InitActionInput /\ [][NextActionInput]_vars

----------------------------------------------------------------------------
(* The Streamlit flow of app.py: one session, each action one run of the
   script after a click *)

InitApp ==
    /\ research_cache = <<>>
    /\ marketing_cache = <<>>
    /\ requests = <<>>
    /\ RouteIdle /\ ParseIdle /\ FlowIdle /\ CallIdle /\ ConcIdle /\ SessionIdle

\* main: the pages shown for each current_step
PagesOf(step) ==
    CASE step = "start" -> {"display_landing", "display_research_phase"}
      [] step = "research" -> {"display_research_phase"}
      [] step = "marketing" -> {"display_marketing_phase"}
      [] step \in {"campaign", "assets"} -> {"display_campaign_generation"}
      [] OTHER -> {}

\* display_research_phase, "Start Research" clicked: the company and the
\* audience are recorded and the step set to "research"; when the research
\* comes back it is appended to the history and the step set to
\* "marketing"; the script run may stop while the research is awaited
display_research_phase(company, audience) ==
    /\ "display_research_phase" \in PagesOf(session_step)
    /\ IF company # <<>> /\ audience # <<>>
       THEN /\ current_company' = company
            /\ current_audience' = audience
            /\ \/ /\ get_research_data(company, audience, FALSE)
                  /\ \E research_data \in {requests'[Len(requests')].served} :
                        research_history' = Append(research_history,
                            [type |-> "research", company |-> company,
                             audience |-> audience, result |-> research_data.result,
                             timestamp |-> research_data.timestamp])
                  /\ session_step' = "marketing"
               \/ /\ session_step' = "research"
                  /\ UNCHANGED <<research_history, cacheVars, routeVars, parseVars,
                                 flowVars, callVars, concVars>>
            /\ UNCHANGED <<theme, ad_assets>>
       ELSE UNCHANGED vars

\* mutant: the step is set to "campaign" before the analysis is awaited
display_marketing_phase_StepFirst ==
    /\ "display_marketing_phase" \in PagesOf(session_step)
    /\ IF research_history # <<>>
       THEN /\ session_step' = "campaign"
            /\ \/ get_marketing_data(research_history[Len(research_history)].company,
                                     current_audience, FALSE)
               \/ UNCHANGED <<cacheVars, routeVars, parseVars, flowVars, callVars, concVars>>
            /\ UNCHANGED <<research_history, current_company, current_audience,
                           theme, ad_assets>>
       ELSE UNCHANGED vars

\* display_marketing_phase: the analysis for the company of the latest
\* research is fetched, then the step set to "campaign"
display_marketing_phase ==
    /\ "display_marketing_phase" \in PagesOf(session_step)
    /\ IF research_history # <<>>
       THEN /\ get_marketing_data(research_history[Len(research_history)].company,
                                  current_audience, FALSE)
            /\ session_step' = "campaign"
            /\ UNCHANGED <<research_history, current_company, current_audience,
                           theme, ad_assets>>
       ELSE UNCHANGED vars

\* display_campaign_generation, "Generate Assets for Campaign i+1" clicked:
\* the assets are stored under campaign_i; an exception is shown and
\* nothing stored
display_campaign_generation(i) ==
    /\ "display_campaign_generation" \in PagesOf(session_step)
    /\ session_step = "campaign"
    /\ MarketingKey(current_company) \in DOMAIN marketing_cache
    /\ ~marketing_cache[MarketingKey(current_company)].result.error
    /\ \E key \in {<<"campaign", "_", IntText(i)>>} :
          ad_assets' = [k \in DOMAIN ad_assets \cup {key} |->
                            IF k = key THEN current_company ELSE ad_assets[k]]
    /\ UNCHANGED <<session_step, research_history, current_company, current_audience,
                   theme, cacheVars, routeVars, parseVars, flowVars, callVars, concVars>>

\* main: another theme chosen in the sidebar
SelectTheme ==
    /\ \E chosen \in {"light", "dark"} : chosen # theme /\ theme' = chosen
    /\ UNCHANGED <<session_step, research_history, current_company, current_audience,
                   ad_assets, cacheVars, routeVars, parseVars, flowVars, callVars, concVars>>

StartResearch ==
    \E company \in Companies \cup {<<>>} : \E audience \in Audiences \cup {<<>>} :
        display_research_phase(company, audience)

GenerateAssets == \E i \in 0..(MaxIdeas - 1) : display_campaign_generation(i)

NextApp == StartResearch \/ display_marketing_phase \/ GenerateAssets \/ SelectTheme

SpecApp == InitApp /\ [][NextApp]_vars

----------------------------------------------------------------------------
(* The report of ResearchAgent.run parsed by parse_research_results of the
   marketing agent: args keeps the graph results the report was built from,
   ret holds first the report, then the parsed sections *)

MaxOver == 2

SUMMARY_LIMIT == 500

\* parse_research_results of agents/marketing/agent.py: the text between
\* "Raw Findings:" and the first "Analysis:" cut to 500 characters, and the
\* text between the first and the second "Analysis:"; both empty when a
\* label is missing (IndexError caught)
marketing_parse_research_results(research_results) ==
    Bind(SplitOn(research_results, "Analysis:", 1, 1), LAMBDA sections :
        Bind(SplitOn(sections[1], "Raw Findings:", 1, 1), LAMBDA before :
            IF Len(before) < 2 \/ Len(sections) < 2
            THEN [company_summary |-> <<>>, analysis |-> <<>>]
            ELSE [company_summary |-> TakeChars(Strip(before[2]), SUMMARY_LIMIT),
                  analysis |-> Strip(sections[2])]))

RECURSIVE Repeat(_, _)
Repeat(text, k) == IF k = 0 THEN <<>> ELSE text \o Repeat(text, k - 1)

\* findings of 498 up to 500 + MaxOver characters
LongFindings ==
    { Repeat(<<"EcoTech builds energy saving thermostats for modern homes">>, 8)
        \o Repeat(<<"a">>, k) : k \in 42..(44 + MaxOver) }

GraphQuestions ==
    { <<"Who buys smart thermostats">>,
      <<"1.", " ", "Who buys smart thermostats", "\n", "2.", " ", "Raw Findings:", " ", "Foo">> }

GraphFindings ==
    { <<" ", "EcoTech builds energy saving thermostats for modern homes", "\n">>,
      <<"Brand", " ", "Analysis:", " ", "Trustworthy">> } \cup LongFindings

GraphAnalyses ==
    { <<>>,
      <<"Urban professionals value sustainability">>,
      <<"\n", "Urban professionals value sustainability", " ">>,
      <<"Brand", " ", "Analysis:", " ", "Sustainable">> }

GraphResults ==
    { [ok |-> TRUE, research_questions |-> q, raw_findings |-> r, analysis |-> a] :
        q \in GraphQuestions, r \in GraphFindings, a \in GraphAnalyses }

InitReport ==
    /\ callee = "ResearchAgent.run"
    /\ args \in {<<results_>> : results_ \in GraphResults}
    /\ ret = NotCalled
    /\ RouteIdle /\ ParseIdle /\ FlowIdle /\ CacheIdle /\ ConcIdle /\ SessionIdle

ReportRun ==
    /\ callee = "ResearchAgent.run" /\ ~ret.done
    /\ \E final_report \in {ResearchAgent_run(args[1])} :
            ret' = [done |-> TRUE, value |-> final_report]
    /\ UNCHANGED <<callee, args, routeVars, parseVars, flowVars, cacheVars, concVars, sessionVars>>

ReportParse ==
    /\ callee = "ResearchAgent.run" /\ ret.done
    /\ callee' = "marketing.parse_research_results"
    /\ \E parsed \in {marketing_parse_research_results(ret.value)} :
            ret' = [done |-> TRUE, value |-> parsed]
    /\ UNCHANGED <<args, routeVars, parseVars, flowVars, cacheVars, concVars, sessionVars>>

NextReport == ReportRun \/ ReportParse

SpecReport == InitReport /\ [][NextReport]_vars

----------------------------------------------------------------------------
(* parse_research_results of run_campaign_flow.py called on its own, on
   prose without numbered sections or bullets, of 39 to 53 characters once
   stripped *)

RECURSIVE Pad(_)
Pad(k) == IF k = 0 THEN <<>> ELSE <<"a">> \o Pad(k - 1)

ProseCores ==
    { <<"Urban professionals value sustainability">>,
      <<"Who buys smart thermostats", " ", "GreenFuture">> }

ProseTexts ==
    { lead \o core \o <<" ">> \o Pad(k) \o trail :
        lead \in {<<>>, <<" ">>}, core \in ProseCores, k \in 0..MaxPad,
        trail \in {<<>>, <<"\n">>} }

InitResearchParse ==
    /\ callee = "parse_research_results"
    /\ args \in {<<research_results>> : research_results \in ProseTexts}
    /\ ret = NotCalled
    /\ RouteIdle /\ ParseIdle /\ FlowIdle /\ CacheIdle /\ ConcIdle /\ SessionIdle

ResearchParseCall ==
    /\ callee = "parse_research_results" /\ ~ret.done
    /\ \E value \in {parse_research_results(args[1])} :
            ret' = [done |-> TRUE, value |-> value]
    /\ UNCHANGED <<callee, args, routeVars, parseVars, flowVars, cacheVars, concVars, sessionVars>>

NextResearchParse == ResearchParseCall

SpecResearchParse == InitResearchParse /\ [][NextResearchParse]_vars

----------------------------------------------------------------------------
(* parse_campaign_ideas on a labelled block: every label present, in the
   order of the patterns, with the name and the core message drawn from
   values of 3 to 14 characters *)

FieldValues ==
    { <<"Foo">>, <<"Bar">>, <<"Reach">>, <<"Eco", " ", "Sales">>, <<"Innovation">>,
      <<"GreenFuture">>, <<"Sustainable">>, <<"Eco", " ", "Tech", " ", "Reach">>,
      <<" ", "Sustainable", " ">> }

LabelledBlock(name, message) ==
    Field(<<"Campaign", " ", "Name:">>, name)
    \o Field(<<"Core Message:">>, message)
    \o Field(<<"Visual Theme", " ", "Description", ":">>, <<"Innovation">>)
    \o Field(<<"Key", " ", "Emotional Appeal:">>, <<"Trustworthy">>)
    \o Field(<<"Social Media", " ", "Focus", ":">>, <<"Reach">>)
    \o Field(<<"Campaign", " ", "Timeline:">>, <<"Q1 2024">>)
    \o Field(<<"Budget", " ", "Allocation", ":">>, <<"Sales">>)
    \o Field(<<"Success Metrics:">>, <<"Reach">>)

InitRoundTrip ==
    /\ callee = "parse_campaign_ideas"
    /\ args \in FieldValues \X FieldValues
    /\ ret = NotCalled
    /\ pChunks = <<>>
    /\ pText \in {header \o LabelledBlock(args[1], args[2]) : header \in {<<>>, MARKER3 \o <<"1", ":", "\n">>}}
    /\ pResult = Pending
    /\ RouteIdle /\ FlowIdle /\ CacheIdle /\ ConcIdle /\ SessionIdle

RoundTripCall ==
    /\ pResult.status = "pending"
    /\ \E result \in {parse_campaign_ideas(pText)} : pResult' = result
    /\ UNCHANGED <<pChunks, pText, routeVars, flowVars, callVars, cacheVars, concVars, sessionVars>>

NextRoundTrip == RoundTripCall

SpecRoundTrip == InitRoundTrip /\ [][NextRoundTrip]_vars

----------------------------------------------------------------------------
(* Two generate_campaign runs that persist their campaigns at the same time
   into the same output directory (two sessions of the application, or two
   calls gathered on one event loop): each run has finished workflow.ainvoke
   and executes the loop over its final_state["campaign_assets"] *)

Runs == {1, 2}

\* the ideas of a run: named by DirectNames, all fields present
RunIdeas == {DirectIdea(n, <<"Sustainable">>) : n \in DirectNames}

\* what a run writes into a file: the content, tagged with the run and the
\* position of the idea
Tagged(r, i, assets) ==
    [tagline |-> [run |-> r, idea |-> i, content |-> assets.tagline],
     story |-> [run |-> r, idea |-> i, content |-> assets.story],
     image_prompt |-> [run |-> r, idea |-> i, content |-> assets.image_prompt]]

InitConcurrent ==
    /\ runs \in [Runs -> [ideas : SeqsUpTo(RunIdeas, MaxIdeas) \ {<<>>},
                          results : {<<>>}, raised : {FALSE}]]
    /\ shared_clock = 0
    /\ shared_fs = <<>>
    /\ RouteIdle /\ ParseIdle /\ FlowIdle /\ CallIdle /\ CacheIdle /\ SessionIdle

\* one iteration of the loop of generate_campaign in run r
PersistInRun(r) ==
    /\ ~runs[r].raised
    /\ Len(runs[r].results) < Len(runs[r].ideas)
    /\ \E image \in ImageOutcomes :
        \E idea \in {runs[r].ideas[Len(runs[r].results) + 1]} :
          \E assets \in {Tagged(r, Len(runs[r].results) + 1, AssetsOf(idea))} :
            \E campaign_dir \in {_create_campaign_directory(idea.campaign_name, shared_clock)} :
                IF image = "raise"
                THEN /\ shared_fs' = SaveTexts(shared_fs, campaign_dir, assets)
                     /\ runs' = [runs EXCEPT ![r].raised = TRUE]
                ELSE /\ shared_fs' = Write(SaveAssets(shared_fs, campaign_dir, assets, image),
                                           Path(campaign_dir, "campaign_details.json"),
                                           [run |-> r, idea |-> Len(runs[r].results) + 1,
                                            content |-> idea.campaign_name])
                     /\ runs' = [runs EXCEPT ![r].results =
                                    Append(@, ResultRecord(idea.campaign_name, campaign_dir,
                                                           assets, image))]
    /\ UNCHANGED <<shared_clock, routeVars, parseVars, flowVars, callVars, cacheVars, sessionVars>>

\* a second of wall-clock time passes
SharedTick ==
    /\ shared_clock < MaxClock
    /\ \E r \in Runs : ~runs[r].raised /\ Len(runs[r].results) < Len(runs[r].ideas)
    /\ shared_clock' = shared_clock + 1
    /\ UNCHANGED <<runs, shared_fs, routeVars, parseVars, flowVars, callVars, cacheVars, sessionVars>>

NextConcurrent == (\E r \in Runs : PersistInRun(r)) \/ SharedTick

SpecConcurrent == InitConcurrent /\ [][NextConcurrent]_vars

----------------------------------------------------------------------------
(* Claims about the conditional edge *)

\* the verdicts of Verdicts that hold "fail" or "error" in some letter case
FailingVerdicts ==
    { <<"F","A","I","L">>,
      <<"n","o"," ","E","r","r","o","r","s">>,
      <<"u","n","f","a","i","l","i","n","g">> }

SomeVerdictFails ==
    \E i \in 1..Len(rAssets) :
        /\ "quality_check" \in DOMAIN rAssets[i]
        /\ rAssets[i].quality_check \in FailingVerdicts

EveryVerdictFails ==
    /\ rAssets # <<>>
    /\ \A i \in 1..Len(rAssets) :
        /\ "quality_check" \in DOMAIN rAssets[i]
        /\ rAssets[i].quality_check \in FailingVerdicts

C3_RouteIffFailingVerdict ==
    rRoute # "none" =>
        /\ rRoute \in {"campaign_assets", "end"}
        /\ (rRoute = "campaign_assets" <=> SomeVerdictFails)

\* C3 (amended): the router sends the run back to campaign_assets exactly
\* when the asset list is empty or some asset's verdict holds "fail" or
\* "error" in any letter case; otherwise it goes to the terminal state.
C3_RouteIffEmptyOrFailing ==
    rRoute # "none" =>
        /\ rRoute \in {"campaign_assets", "end"}
        /\ (rRoute = "campaign_assets" <=> (rAssets = <<>> \/ SomeVerdictFails))

C3_Witness_EmptyRoutedBack ==
    rAssets = <<>> /\ rRoute = "campaign_assets"

----------------------------------------------------------------------------
(* Claims about parse_campaign_ideas *)

\* bodies of which no section made of them passes validate_campaign_data
InvalidBodies == {BodyShort, BodyProse, BodyBlank, <<>>}

BlankBodies == {BodyBlank, <<>>}

NoValidBody == \A i \in 1..Len(pChunks) : pChunks[i].body \in InvalidBodies

SomeNonBlankBody == \E i \in 1..Len(pChunks) : pChunks[i].body \notin BlankBodies

SomeMarker == \E i \in 1..Len(pChunks) : pChunks[i].marker # <<>>

\* the text is empty or whitespace only
BlankText == \A i \in 1..Len(pChunks) :
                pChunks[i].marker = <<>> /\ pChunks[i].body \in BlankBodies

ReturnedFallback ==
    pResult.status = "returned" /\ pResult.campaigns = <<FALLBACK_CAMPAIGN>>

\* C6 (as stated): parse_campaign_ideas never returns an empty list, and for
\* a non-empty marketing text of which no section passes validation it
\* returns exactly the fallback campaign.
C6_NoValidSectionReturnsFallback ==
    pResult.status # "pending" =>
        /\ (pResult.status = "returned" => pResult.campaigns # <<>>)
        /\ (~BlankText /\ NoValidBody => ReturnedFallback)

\* C6 (amended): parse_campaign_ideas never returns an empty list; for a
\* text with some non-blank section of which none passes validation it
\* returns exactly the fallback campaign; for a non-empty text without any
\* non-blank section (boundary markers and whitespace only) it raises
\* ParsingError and returns nothing.
C6_FallbackOrNoSections ==
    pResult.status # "pending" =>
        /\ (pResult.status = "returned" => pResult.campaigns # <<>>)
        /\ (NoValidBody /\ SomeNonBlankBody => ReturnedFallback)
        /\ (~BlankText /\ ~SomeNonBlankBody =>
                /\ pResult.status = "raised"
                /\ pResult.error.type = "ParsingError"
                /\ pResult.campaigns = <<>>)

C6_Witness_FallbackAfterInvalidSections ==
    /\ ReturnedFallback
    /\ Len(pChunks) = 2
    /\ pChunks[1].body = BodyShort
    /\ pChunks[2].marker = MARKER3
    /\ pChunks[2].body = BodyProse

\* C7 (as stated): an empty or whitespace-only marketing text yields exactly
\* the fallback campaign.
C7_BlankTextReturnsFallback ==
    (pResult.status # "pending" /\ BlankText) => ReturnedFallback

\* C7 (amended): for an empty or whitespace-only marketing text
\* parse_campaign_ideas raises ParsingError for step 'marketing' and returns
\* no campaign, the fallback campaign included.
C7_BlankTextRaisesParsingError ==
    (pResult.status # "pending" /\ BlankText) =>
        /\ pResult.status = "raised"
        /\ pResult.error.type = "ParsingError"
        /\ pResult.error.step = "marketing"
        /\ pResult.campaigns = <<>>

C7_Witness_WhitespaceOnlyRaised ==
    /\ pChunks = <<[marker |-> <<>>, body |-> BodyBlank]>>
    /\ pResult.status = "raised"

----------------------------------------------------------------------------
(* Claims about the workflow graph and the end-to-end run *)

\* the node n has run, and no campaign_assets_node run comes after its last run
RanAfterLastAssets(n) ==
    \E q \in 1..Len(executed) :
        /\ executed[q] = n
        /\ \A a \in 1..Len(executed) : executed[a] = "campaign_assets_node" => a < q

\* C1: the workflow reaches its terminal state only when quality_check has
\* run after the last run of campaign_assets
C1_EndOnlyAfterQualityCheck ==
    node = END => RanAfterLastAssets("quality_check_node")

\* the positions of the ideas handed to generate_campaign
IdeaPositions == 1..Len(ideas)

\* C4: when generate_campaign has returned, the assets of the campaign_assets
\* stage and the result records are as many as the ideas and in their order:
\* the i-th assets are those generated for the i-th idea, the i-th call of
\* _save_campaign_assets got the i-th assets, and the i-th record carries the
\* i-th campaign_name and the directory of that call
C4_RecordsFollowIdeas ==
    gen_done =>
        /\ Len(graph_state.campaign_assets) = Len(ideas)
        /\ Len(results) = Len(ideas)
        /\ Len(saved) = Len(ideas)
        /\ \A i \in IdeaPositions :
            /\ graph_state.campaign_assets[i] = AssetsOf(ideas[i])
            /\ saved[i].assets = graph_state.campaign_assets[i]
            /\ results[i].campaign_name = ideas[i].campaign_name
            /\ results[i].campaign_dir = saved[i].campaign_dir
            /\ results[i].campaign_dir.name = _sanitize_filename(ideas[i].campaign_name)

\* generate_campaign has returned the records of two ideas that differ in
\* name and in assets
C4_Witness_TwoDifferentIdeas ==
    /\ gen_done
    /\ Len(ideas) = 2
    /\ ideas[1].campaign_name # ideas[2].campaign_name
    /\ AssetsOf(ideas[1]) # AssetsOf(ideas[2])
    /\ Len(results) = 2

\* C5: when research, marketing and asset generation have completed without
\* a failure of an external service, run_campaign_flow returns normally with
\* a non-empty list of campaign ideas
C5_CompletedFlowReturns ==
    (entry = "flow" /\ gen_done /\ failed = {}) => (pc = "returned" /\ ideas # <<>>)

\* C8: once the language model or the search tool has failed inside the
\* research or the marketing stage, the run has ended with an error and no
\* later stage has been started
C8_StageFailureEndsRun ==
    /\ "research" \in failed => (pc = "raised" /\ calls = <<"research">>)
    /\ "marketing" \in failed => (pc = "raised" /\ calls = <<"research", "marketing">>)

\* C9: a failure of the image generator does not end generate_campaign with
\* an exception
C9_ImageFailureKeepsRun ==
    "image" \in failed => ~(pc = "raised" /\ raised.message = "ImageGenerationError")

\* C10: no two result records of one generate_campaign run name the same
\* campaign directory
C10_DistinctDirectories ==
    \A i \in 1..Len(results) : \A j \in 1..Len(results) :
        i # j => results[i].campaign_dir # results[j].campaign_dir

----------------------------------------------------------------------------
(* Claims about concurrent runs *)

\* the directories the result records of run r name
DirsOf(r) == {runs[r].results[i].campaign_dir : i \in 1..Len(runs[r].results)}

\* C12: generate_single_campaign on a campaign that lacks brand_info,
\* target_audience or campaign_goals does not start the workflow: it fails
\* with an error before any node runs
C12_MissingInputIsRejected ==
    (entry = "single" /\ ~(CONTEXT_KEYS \subseteq DOMAIN ideas[1]))
        => (node = "none" /\ executed = <<>> /\ pc \in {"start", "raised"})

\* the non-blank sections of the text parsed and, among their positions,
\* those whose campaign passes validation
TextSections == NonBlank(SplitCampaigns(pText, 1, 1))

\* the campaign built from each section, before validation
BuiltSections(sections) ==
    [i \in 1..Len(sections) |-> BuildCampaign(sections[i], i, <<>>)]

\* the positions of the sections whose campaign passes validation
Passing(built) ==
    {i \in DOMAIN built : validate_campaign_data(built[i]) = NoError}

PassingSections == Passing(BuiltSections(TextSections))

\* the k-th smallest member of a set of positions
Nth(positions, k) ==
    CHOOSE i \in positions : Cardinality({j \in positions : j < i}) = k - 1

WithoutMetrics(campaign) == [campaign EXCEPT !.success_metrics = <<>>]

\* C13: when some sections of the marketing text fail validation and at
\* least one passes, parse_campaign_ideas returns, without raising and
\* without the fallback campaign, exactly the campaigns of the passing
\* sections in the order of the sections
C13_PassingSectionsInOrder ==
    pResult.status # "pending" =>
        Bind(BuiltSections(TextSections), LAMBDA built :
            Bind(Passing(built), LAMBDA passing :
                (passing # {} /\ passing # DOMAIN built) =>
                    /\ pResult.status = "returned"
                    /\ Len(pResult.campaigns) = Cardinality(passing)
                    /\ \A k \in 1..Len(pResult.campaigns) :
                          /\ pResult.campaigns[k] # FALLBACK_CAMPAIGN
                          /\ WithoutMetrics(pResult.campaigns[k]) = built[Nth(passing, k)]))

\* a failing section followed by two different passing ones
C13_Witness_TwoPassOneFails ==
    /\ pResult.status = "returned"
    /\ Len(pResult.campaigns) = 2
    /\ Len(TextSections) = 3
    /\ PassingSections = {2, 3}
    /\ pResult.campaigns[1].campaign_name = <<"Campaign", " ", "2">>
    /\ pResult.campaigns[2].campaign_name = <<"Eco", " ", "Tech", " ", "Reach">>

\* the block parsed gave one campaign with the name and the core message
\* that were written into it
RoundTripExact ==
    /\ pResult.status = "returned"
    /\ Len(pResult.campaigns) = 1
    /\ pResult.campaigns[1].campaign_name = args[1]
    /\ pResult.campaigns[1].core_message = args[2]

PeriodsWithinCap ==
    {i \in 1..args[2] : i <= Len(args[1]) /\ args[1][i] = "."}

Largest(positions) == CHOOSE i \in positions : \A j \in positions : j <= i

\* C15: for text longer than cap, truncate_text returns a prefix of at most
\* cap characters that ends with the last '.' within the first cap
\* characters, or, only when there is no '.' within them, exactly the first
\* cap characters; text of at most cap characters is returned as it is.
C15_TruncationLaw ==
    (callee = "truncate_text" /\ ret.done) =>
        IF Len(args[1]) <= args[2]
        THEN ret.value = args[1]
        ELSE /\ Len(ret.value) <= args[2]
             /\ ret.value = SubSeq(args[1], 1, Len(ret.value))
             /\ IF PeriodsWithinCap # {}
                THEN Len(ret.value) = Largest(PeriodsWithinCap)
                ELSE Len(ret.value) = args[2]

\* C16: for every campaign name, _sanitize_filename returns a string made of
\* alphanumeric characters and '_' only that neither begins nor ends with '_'
C16_SanitizedNameIsSafe ==
    (callee = "_sanitize_filename" /\ ret.done) =>
        /\ \A i \in 1..Len(ret.value) : IsAlnumChar(ret.value[i]) \/ ret.value[i] = "_"
        /\ ret.value # <<>> => (ret.value[1] # "_" /\ ret.value[Len(ret.value)] # "_")

\* '/a 7' gave 'a_7'
C16_Witness_SeparatorsReplaced ==
    /\ callee = "_sanitize_filename" /\ ret.done
    /\ args = << <<"/", "a", " ", "7">> >>
    /\ ret.value = <<"a", "_", "7">>

RECURSIVE SplitAtAny(_, _, _, _)
\* the pieces of t between the tokens of seps
SplitAtAny(t, seps, i, start) ==
    IF i > Len(t) THEN <<SubSeq(t, start, Len(t))>>
    ELSE IF t[i] \in seps
         THEN <<SubSeq(t, start, i - 1)>> \o SplitAtAny(t, seps, i + 1, i + 1)
         ELSE SplitAtAny(t, seps, i + 1, start)

\* C17: every success_metrics list produced by parse_campaign_ideas and by
\* parse_campaign_details is the metrics text split on commas and on
\* newlines, each entry trimmed, without any empty entry
C17_MetricsSplitOnCommasAndNewlines ==
    (callee \in {"parse_campaign_ideas", "parse_campaign_details"} /\ ret.done) =>
        /\ ret.value # <<>>
        /\ \A k \in 1..Len(ret.value) :
              ret.value[k] = StrippedNonEmpty(SplitAtAny(args[1], {",", "\n"}, 1, 1))

\* C18: what the cache serves for a request (company, audience) was computed
\* for exactly that company and that audience, and two requests to the same
\* function that differ in the company or in the audience never share a
\* cache entry
C18_CacheServesOwnRequest ==
    /\ \A i \in 1..Len(requests) :
          /\ requests[i].served.result.company = requests[i].company
          /\ requests[i].served.result.audience = requests[i].audience
    /\ \A i \in 1..Len(requests) : \A j \in 1..Len(requests) :
          (/\ requests[i].function = requests[j].function
           /\ <<requests[i].company, requests[i].audience>>
                 # <<requests[j].company, requests[j].audience>>)
              => requests[i].cache_key # requests[j].cache_key

ASSET_PATH_KEYS == {"tagline", "story", "image", "details"}

\* C19: for a non-empty list of ideas, a generate_campaign that has completed
\* returns a non-empty list in which every record has campaign_name,
\* campaign_dir and assets, and the tagline, story, image and details paths
\* of its assets are files that exist, in the directory of the record
C19_RecordsPointAtFiles ==
    (gen_done /\ ideas # <<>>) =>
        /\ results # <<>>
        /\ \A i \in 1..Len(results) :
              /\ {"campaign_name", "campaign_dir", "assets"} \subseteq DOMAIN results[i]
              /\ \A k \in ASSET_PATH_KEYS :
                    /\ k \in DOMAIN results[i].assets
                    /\ results[i].assets[k] \in DOMAIN fs
                    /\ results[i].assets[k].dir = results[i].campaign_dir

\* generate_campaign has returned two records with different directories
C19_Witness_TwoDirectories ==
    /\ gen_done
    /\ entry = "generate"
    /\ Len(results) = 2
    /\ results[1].campaign_dir # results[2].campaign_dir
    /\ results[2].assets.image \in DOMAIN fs

\* the positions of the marker in the content generate_campaigns was called on
MarkerPositions == {i \in 1..Len(args[1]) : args[1][i] = "Action Input:"}

Smallest(positions) == CHOOSE i \in positions : \A j \in positions : i <= j

\* the position of the second marker, the end of the content without one
SecondMarkerOrEnd ==
    IF Cardinality(MarkerPositions) >= 2
    THEN Smallest(MarkerPositions \ {Smallest(MarkerPositions)})
    ELSE Len(args[1]) + 1

\* C20 (as stated): generate_campaigns of the marketing graph returns for
\* every content; when the content holds the marker 'Action Input:' its
\* campaign_ideas is all the text after the first marker, trimmed, and
\* otherwise it is the full response, unmodified.
C20_AllTextAfterFirstMarker ==
    (callee = "generate_campaigns" /\ ret.done) =>
        IF MarkerPositions = {}
        THEN ret.value = args[1]
        ELSE ret.value = Strip(SubSeq(args[1], Smallest(MarkerPositions) + 1, Len(args[1])))

\* C20 (amended): the same, with campaign_ideas the text between the first
\* marker and the next marker, or the end of the content when there is no
\* other marker, trimmed.
C20_TextUpToNextMarker ==
    (callee = "generate_campaigns" /\ ret.done) =>
        IF MarkerPositions = {}
        THEN ret.value = args[1]
        ELSE ret.value = Strip(SubSeq(args[1], Smallest(MarkerPositions) + 1,
                                      SecondMarkerOrEnd - 1))

\* a content with two markers gave the text between them
C20_Witness_TwoMarkers ==
    /\ callee = "generate_campaigns" /\ ret.done
    /\ args = << <<"Action Input:", "Foo", "Action Input:", "Foo">> >>
    /\ ret.value = <<"Foo">>

\* C11: two generate_campaign runs that execute concurrently never persist
\* into the same campaign directory
C11_RunsKeepApart ==
    \A r1 \in Runs : \A r2 \in Runs : r1 # r2 => DirsOf(r1) \cap DirsOf(r2) = {}

\* every field of the GraphState before is a field of the GraphState after:
\* the keys of the state, of strategy_analysis and creative_direction with
\* their values, and the keys of every asset of campaign_assets
Grows(before, after) ==
    /\ DOMAIN before \subseteq DOMAIN after
    /\ \A part \in {"strategy_analysis", "creative_direction"} :
          \A k \in DOMAIN before[part] :
              k \in DOMAIN after[part] /\ after[part][k] = before[part][k]
    /\ Len(after.campaign_assets) >= Len(before.campaign_assets)
    /\ \A i \in 1..Len(before.campaign_assets) :
          DOMAIN before.campaign_assets[i] \subseteq DOMAIN after.campaign_assets[i]

\* C21: during an AdGen workflow run the shared state only grows: no stage
\* execution removes a field that the run or an earlier stage has written
\* (strategy inputs, analysis, creative direction, campaign assets and their
\* verdicts) or replaces it by a value that lacks it
C21_StateOnlyGrows == [][pc = "graph" => Grows(graph_state, graph_state')]_vars

\* the three stages have run and each has left its field
C21_Witness_ThreeStagesWritten ==
    /\ executed = <<"analyze_strategy_node", "creative_direction_node", "campaign_assets_node">>
    /\ {"analysis", "brand_info"} \subseteq DOMAIN graph_state.strategy_analysis
    /\ "direction" \in DOMAIN graph_state.creative_direction
    /\ Len(graph_state.campaign_assets) = 2
\* C22: when neither numbered sections nor bullet items are found,
\* parse_research_results uses the whole stripped text for all three
\* sections whenever that text has at least 50 characters, and raises only
\* when it has fewer than 50
C22_WholeTextFromFiftyCharacters ==
    (callee = "parse_research_results" /\ ret.done) =>
        IF TextLen(Strip(args[1])) >= 50
        THEN /\ ret.value.status = "returned"
             /\ ret.value.sections = AllSections(Strip(args[1]))
        ELSE ret.value.status = "raised"
\* the errors of the parsers and validators: subclasses of CampaignFlowError
FLOW_ERROR_SUBCLASSES == {"ParsingError", "ValidationError"}

PROMPT_KEYS_READ == {"product_focused", "brand_focused", "social_media"}

\* C23: every campaign parse_campaign_ideas returns, the fallback campaign
\* included, has prompt suggestions under product_focused, brand_focused and
\* social_media, the three keys the asset stage reads
C23_SuggestionsUnderKeysRead ==
    pResult.status = "returned" =>
        \A k \in 1..Len(pResult.campaigns) :
            PROMPT_KEYS_READ \subseteq DOMAIN pResult.campaigns[k].prompt_suggestions
\* C25: parsing the report ResearchAgent.run builds from questions, raw
\* findings and analysis gives back the first 500 characters of the stripped
\* raw findings as company_summary and the stripped analysis as analysis
C25_ReportRoundTrip ==
    (callee = "marketing.parse_research_results" /\ ret.done) =>
        /\ ret.value.company_summary = TakeChars(Strip(args[1].raw_findings), SUMMARY_LIMIT)
        /\ ret.value.analysis = Strip(args[1].analysis)

\* C26: no entry of the session caches holds the text of a run in which the
\* agent caught an exception
C26_FailedRunsNotCached ==
    /\ \A k \in DOMAIN research_cache : ~research_cache[k].result.error
    /\ \A k \in DOMAIN marketing_cache : ~marketing_cache[k].result.error

\* what one call of a cache function may do to its cache
CacheFrame(req, before, after) ==
    IF ~req.force_new /\ req.cache_key \in DOMAIN before
    THEN /\ req.served = before[req.cache_key]
         /\ req.invocations = <<>>
         /\ after = before
    ELSE /\ Len(req.invocations) = 1
         /\ req.served.result = req.invocations[1]
         /\ DOMAIN after = DOMAIN before \cup {req.cache_key}
         /\ after[req.cache_key] = req.served
         /\ \A k \in DOMAIN before \ {req.cache_key} : after[k] = before[k]

\* C27: a call of get_research_data or get_marketing_data with force_new
\* false and the key cached returns the cached entry, runs no agent and
\* leaves both caches as they were; with force_new true or the key absent
\* it runs the agent exactly once and writes the entry of that key only
C27_CacheCallFrame ==
    [][Len(requests') = Len(requests) + 1 =>
          IF requests'[Len(requests')].function = "get_research_data"
          THEN /\ CacheFrame(requests'[Len(requests')], research_cache, research_cache')
               /\ marketing_cache' = marketing_cache
          ELSE /\ CacheFrame(requests'[Len(requests')], marketing_cache, marketing_cache')
               /\ research_cache' = research_cache]_vars

\* a fresh run, a call served from the cache, and a forced new run for the
\* same key
C27_Witness_MissHitForced ==
    /\ Len(requests) = 3
    /\ \A i \in 1..3 : requests[i].function = "get_research_data"
                        /\ requests[i].cache_key = requests[1].cache_key
    /\ requests[1].invocations # <<>>
    /\ ~requests[2].force_new /\ requests[2].invocations = <<>>
    /\ requests[2].served = requests[1].served
    /\ requests[3].force_new /\ requests[3].invocations # <<>>
    /\ research_cache[requests[1].cache_key] = requests[3].served
    /\ requests[3].served # requests[1].served
\* the order of the steps of the Streamlit flow
STEP_ORDER == <<"start", "research", "marketing", "campaign">>

StepRank(step) == CHOOSE k \in 1..Len(STEP_ORDER) : STEP_ORDER[k] = step

\* C28: in the Streamlit flow current_step only moves forward along start,
\* research, marketing, campaign; whenever it is "marketing" or "campaign"
\* the research history is non-empty, and whenever it is "campaign" the
\* marketing cache holds an entry for the current company
C28_StepsOnlyForward ==
    /\ [][StepRank(session_step') >= StepRank(session_step)]_vars
    /\ [](session_step \in {"marketing", "campaign"} => research_history # <<>>)
    /\ [](session_step = "campaign" =>
            MarketingKey(current_company) \in DOMAIN marketing_cache)

\* the session went through research and marketing analysis to the campaign
\* step, and assets were generated there
C28_Witness_CampaignWithAssets ==
    /\ session_step = "campaign"
    /\ Len(research_history) = 1
    /\ Len(requests) = 2
    /\ requests[2].function = "get_marketing_data"
    /\ requests[2].company = current_company
    /\ current_company = <<"Eco", "_", "Tech">>
    /\ ad_assets # <<>>
\* C29: each campaign parse_campaign_ideas returns from the sections of the
\* text carries the success metrics written in its own section, so the
\* metrics of one campaign never appear in another
C29_MetricsOfOwnSection ==
    (pResult.status = "returned" /\ ~ReturnedFallback) =>
        Bind(TextSections, LAMBDA sections :
            Bind(Passing(BuiltSections(sections)), LAMBDA passing :
                \A k \in 1..Len(pResult.campaigns) :
                    pResult.campaigns[k].success_metrics
                        = ExtractSuccessMetrics(sections[Nth(passing, k)])))
\* the files of a campaign directory that generate_campaign writes for a
\* campaign it has a record of
RECORD_FILES == {"tagline.txt", "story.txt", "image.png", "campaign_details.json"}

\* the text files of _save_campaign_assets that are written before an
\* operation that failed
WrittenBefore(failure) ==
    CASE failure = "tagline.txt" -> {}
      [] failure = "story.txt" -> {"tagline.txt"}
      [] OTHER -> {"tagline.txt", "story.txt"}

\* C30: generate_campaign never returns a partial result: when persisting
\* the k-th campaign fails, by a text write or by the image generation, the
\* call raises and returns no record, every file already on disk stays, the
\* campaigns before k keep all their files, and the tagline and story files
\* of campaign k written before the failure are on disk
C30_NoPartialResult ==
    /\ []((pc = "raised" /\ Len(saved) > Len(results)) => ~gen_done)
    /\ [][(pc = "persist" /\ pc' = "raised" /\ saved' # saved) =>
            /\ results' = results /\ ~gen_done'
            /\ Len(saved') = Len(results) + 1
            /\ \A p \in DOMAIN fs : p \in DOMAIN fs'
            /\ \A i \in 1..Len(results) : \A f \in RECORD_FILES :
                    Path(saved'[i].campaign_dir, f) \in DOMAIN fs'
            /\ \A failure \in failed' \ failed :
                    \A f \in WrittenBefore(failure) :
                        Path(saved'[Len(saved')].campaign_dir, f) \in DOMAIN fs'
            /\ failed' # failed]_vars

\* the image generation failed for the second campaign: the first campaign
\* has its four files, the second its tagline and story, and nothing was
\* returned
C30_Witness_SecondCampaignFails ==
    /\ pc = "raised" /\ ~gen_done
    /\ Len(results) = 1 /\ Len(saved) = 2
    /\ "image" \in failed
    /\ saved[1].campaign_dir # saved[2].campaign_dir
    /\ \A f \in RECORD_FILES : Path(saved[1].campaign_dir, f) \in DOMAIN fs
    /\ Path(saved[2].campaign_dir, "story.txt") \in DOMAIN fs
    /\ Path(saved[2].campaign_dir, "image.png") \notin DOMAIN fs
====
